---------------------------- MODULE Spec2Model ----------------------------
(***************************************************************************)
(* A model of webgpu-utils: the pass runner (runPasses), the struct layout *)
(* system (Struct and the value types), the Buffer resource handle and the *)
(* WGSL source scanner (WGSLParser).  The GPU device is an external        *)
(* collaborator: the model records the calls made to it.                   *)
(***************************************************************************)
EXTENDS Integers, Sequences, FiniteSets, TLC

VARIABLES
    device,      \* canvas.js `device`: FALSE until initCanvas has set it
    passes,      \* the `passes` argument handed to runPasses
    repeats,     \* the `repeats` argument handed to runPasses
    calls,       \* number of runPasses calls made so far
    encoders,    \* number of command encoders the device has created
    trace,       \* device-side calls made by the latest runPasses call
    queue,       \* command buffers submitted by the latest runPasses call
    rpError,     \* "" or the message of the error the latest call threw
    data,        \* Struct.data: the struct's ordered (name, type) fields
    origin,      \* for each field of data, what put it there: "user" (the list given
                 \* to the constructor), "filler" (its padding) or "added" (add)
    sOp,         \* the latest Struct method called
    sArg,        \* its argument
    sRes,        \* what it returned or threw
    buffer,      \* one core.js Buffer: whether it exists, its size and host data
    upd,         \* the latest constructor or update call on it and its outcome
    pieces,      \* the function definitions and loose lines the scanned text is made of
    code,        \* WGSLParser.code, a sequence of characters
    position,    \* WGSLParser.position, counted from 0
    functions,   \* WGSLParser.functions
    body,        \* WGSLParser.body, the list of loose lines
    pc,          \* where the scan is: "parse" (in the loop of parse), "return", "done"
    result,      \* what extractFunctionsAndBody returned
    rescanned,   \* the emitted function string handed to a second scan, if any
    options,     \* the options handed to initCanvas
    width,       \* canvas.js `width`: 0 until initCanvas has set it
    height,      \* canvas.js `height`: 0 until initCanvas has set it
    tmpl,        \* the template handed to wgsl: its pieces, its text, and whether
                 \* the text is what an earlier wgsl call returned
    out,         \* the latest wgsl or getNoiseCode call and what it returned
    wcalls,      \* number of wgsl and getNoiseCode calls made so far
    noiseBuffer, \* noise.js `noiseBuffer`: 0 while undefined
    noiseMade,   \* number of Buffers constructed for noiseBuffer
    known,       \* which of the exports mouseBuffer, timeBuffer, renderTxtr, feedbackTxtr,
                 \* clearPass, renderPass and matchPass are set
    cpArg,       \* the `bindings` array the application hands to new ComputePass
    cp,          \* the latest ComputePass construction: its arguments, whether
                 \* it returned, what it returned, and the array after the call
    ini          \* one init(options) call: where it is, its promise, the
                 \* microtask queue, and what the caller saw after `await init()`

runVars == <<passes, repeats, calls, encoders, trace, queue, rpError>>

structVars == <<data, origin, sOp, sArg, sRes>>

bufVars == <<buffer, upd>>

scanVars == <<pieces, code, position, functions, body, pc, result, rescanned>>

wgslVars == <<options, width, height, tmpl, out, wcalls, noiseBuffer, noiseMade>>

passVars == <<known, cpArg, cp>>

vars == <<device, runVars, structVars, bufVars, scanVars, wgslVars, passVars, ini>>

(***************************************************************************)
(* Generic helpers                                                         *)
(***************************************************************************)
Min(a, b) == IF a < b THEN a ELSE b

Range(s) == {s[i] : i \in DOMAIN s}

RECURSIVE SumSeq(_)
SumSeq(s) == IF s = <<>> THEN 0 ELSE Head(s) + SumSeq(Tail(s))

RECURSIVE SeqsUpTo(_, _)
\* all sequences over S of length 0..n
SeqsUpTo(S, n) ==
    IF n = 0 THEN {<<>>}
    ELSE LET shorter == SeqsUpTo(S, n - 1)
         IN  shorter \cup {Append(s, x) : s \in {t \in shorter : Len(t) = n - 1}, x \in S}

(***************************************************************************)
(* Bounds of the pass-runner inputs                                        *)
(***************************************************************************)
MaxPasses == 3      \* longest pass list
MaxSub == 2         \* longest fanned-out sub-list
MaxRepeats == 2     \* largest `repeats`
MaxCalls == 2       \* runPasses calls per behaviour

(***************************************************************************)
(* Pass objects.  A pass is an object with a run method (RenderPass.run,   *)
(* ComputePass.run); the device may make run raise.  An array is an object *)
(* without a run method.                                                   *)
(***************************************************************************)
PassObj(id, hasRun, runThrows) ==
    [isArray |-> FALSE, id |-> id, hasRun |-> hasRun, runThrows |-> runThrows,
     items |-> <<>>]

ArrayOf(items) ==
    [isArray |-> TRUE, id |-> 0, hasRun |-> FALSE, runThrows |-> FALSE,
     items |-> items]

FaultKinds == {"none", "norun", "throws"}

\* the pass with flat position `id`; position `at` carries the fault `kind`
MkPass(id, at, kind) ==
    PassObj(id, ~(id = at /\ kind = "norun"), id = at /\ kind = "throws")

\* a list shape is a sequence of entry sizes: -1 a single pass, n >= 0 a
\* sub-list of n passes
ShapeSize(e) == IF e = -1 THEN 1 ELSE e

RECURSIVE BuildList(_, _, _, _)
BuildList(shape, next, at, kind) ==
    IF shape = <<>> THEN <<>>
    ELSE LET e == Head(shape)
             entry == IF e = -1 THEN MkPass(next, at, kind)
                      ELSE ArrayOf([j \in 1..e |-> MkPass(next + j - 1, at, kind)])
         IN  <<entry>> \o BuildList(Tail(shape), next + ShapeSize(e), at, kind)

RECURSIVE ShapeTotal(_)
ShapeTotal(shape) ==
    IF shape = <<>> THEN 0 ELSE ShapeSize(Head(shape)) + ShapeTotal(Tail(shape))

Shapes == SeqsUpTo({-1} \cup (0..MaxSub), MaxPasses)

\* the arguments runPasses is called with: pass lists, and a bare pass
PassArgs ==
    {ArrayOf(BuildList(sh, 1, at, kind)) :
        sh \in Shapes, at \in 1..(MaxPasses * MaxSub), kind \in FaultKinds}
    \cup {MkPass(1, 1, kind) : kind \in FaultKinds}

(***************************************************************************)
(* runPasses                                                               *)
(***************************************************************************)
Ev(op, pass, enc) == [op |-> op, pass |-> pass, enc |-> enc]

\* one `p.run(commandEncoder)` preceded by its validity check; st carries the
\* calls made so far, the commands recorded in the encoder and the error
RunOne(p, enc, st, msg) ==
    IF ~p.hasRun THEN [st EXCEPT !.error = msg]
    ELSE IF p.runThrows
         THEN [st EXCEPT !.trace = Append(@, Ev("run", p.id, enc)),
                         !.error = "run failed"]
         ELSE [st EXCEPT !.trace = Append(@, Ev("run", p.id, enc)),
                         !.cmds = Append(@, p.id)]

RECURSIVE ForEachRunReversed(_, _, _, _)
\* a sub-list walked from its last pass to its first
ForEachRunReversed(items, k, enc, st) ==
    IF st.error # "" \/ k > Len(items) THEN st
    ELSE ForEachRunReversed(items, k + 1, enc,
             RunOne(items[Len(items) + 1 - k], enc, st, "Invalid pass object in array"))

RECURSIVE ForEachRun(_, _, _, _)
\* pass.forEach(p => ...) of the array branch
ForEachRun(items, k, enc, st) ==
    IF st.error # "" \/ k > Len(items) THEN st
    ELSE ForEachRun(items, k + 1, enc,
                    RunOne(items[k], enc, st, "Invalid pass object in array"))

RECURSIVE ForPasses(_, _, _, _)
\* for (const pass of passes)
ForPasses(list, k, enc, st) ==
    IF st.error # "" \/ k > Len(list) THEN st
    ELSE ForPasses(list, k + 1, enc,
                   IF list[k].isArray
                   THEN ForEachRun(list[k].items, 1, enc, st)
                   ELSE RunOne(list[k], enc, st, "Invalid pass object"))

RECURSIVE ForRepeats(_, _, _, _, _)
\* for (let i = 0; i < repeats; i++)
ForRepeats(list, i, n, enc, st) ==
    IF st.error # "" \/ ~(i < n) THEN st
    ELSE ForRepeats(list, i + 1, n, enc, ForPasses(list, 1, enc, st))

\* if (!Array.isArray(passes)) passes = [passes]
NormalizePasses(arg) == IF arg.isArray THEN arg.items ELSE <<arg>>

\* a runPasses that submits in a `finally`, whether or not the loops failed
RunPassesSubmitAlways(arg, n, dev, enc) ==
    IF ~dev
    THEN [trace |-> <<>>, queue |-> <<>>,
          error |-> "runPasses: WebGPU device not initialized", made |-> 0]
    ELSE LET st0 == [trace |-> <<Ev("createCommandEncoder", 0, enc)>>,
                     cmds |-> <<>>, error |-> ""]
             st  == ForRepeats(NormalizePasses(arg), 0, n, enc, st0)
         IN  [trace |-> st.trace \o <<Ev("finish", 0, enc), Ev("submit", 0, enc)>>,
              queue |-> <<[enc |-> enc, cmds |-> st.cmds]>>,
              error |-> IF st.error = "" THEN ""
                        ELSE "Failed to run passes: " \o st.error,
              made |-> 1]

\* the whole call: the calls made to the device, what was submitted, the error
RunPassesResult(arg, n, dev, enc) ==
    IF ~dev
    THEN [trace |-> <<>>, queue |-> <<>>,
          error |-> "runPasses: WebGPU device not initialized", made |-> 0]
    ELSE LET st0 == [trace |-> <<Ev("createCommandEncoder", 0, enc)>>,
                     cmds |-> <<>>, error |-> ""]
             st  == ForRepeats(NormalizePasses(arg), 0, n, enc, st0)
         IN  IF st.error = ""
             THEN [trace |-> st.trace \o <<Ev("finish", 0, enc), Ev("submit", 0, enc)>>,
                   queue |-> <<[enc |-> enc, cmds |-> st.cmds]>>,
                   error |-> "", made |-> 1]
             ELSE [trace |-> st.trace, queue |-> <<>>,
                   error |-> "Failed to run passes: " \o st.error, made |-> 1]

(***************************************************************************)
(* The value types of struct.js                                            *)
(***************************************************************************)
Types == {"f32", "vec2", "vec3", "vec4", "color"}

\* type.size, in bytes
TypeSize(t) ==
    CASE t = "f32" -> 4 [] t = "vec2" -> 8 [] t = "vec3" -> 12
      [] t = "vec4" -> 16 [] t = "color" -> 16

\* the properties a composite value must have, in packing order
Components(t) ==
    CASE t = "f32" -> <<>>
      [] t = "vec2" -> <<"x", "y">>
      [] t = "vec3" -> <<"x", "y", "z">>
      [] t = "vec4" -> <<"x", "y", "z", "w">>
      [] t = "color" -> <<"r", "g", "b", "a">>

\* what storing the integer v in a Float32Array keeps: integers up to 2^24
\* exactly, beyond that the nearest even integer (ties to a multiple of 4)
F32(v) ==
    LET a == IF v < 0 THEN -v ELSE v
        r == IF a <= 2^24 \/ a % 2 = 0 THEN a
             ELSE IF (a + 1) % 4 = 0 THEN a + 1 ELSE a - 1
    IN  IF v < 0 THEN -r ELSE r

\* type.toFloat32Array(val): the validity check, then the components in order
TypeToFloat32Array(t, val) ==
    IF t = "f32" THEN [ok |-> TRUE, arr |-> <<F32(val)>>]
    ELSE IF Range(Components(t)) \subseteq DOMAIN val
         THEN [ok |-> TRUE,
               arr |-> [i \in 1..Len(Components(t)) |-> F32(val[Components(t)[i]])]]
         ELSE [ok |-> FALSE, arr |-> <<>>]

\* type.fromFloat32Array(arr)
TypeFromFloat32Array(t, arr) ==
    CASE t = "f32" -> arr[1]
      [] t = "vec2" -> [x |-> arr[1], y |-> arr[2]]
      [] t = "vec3" -> [x |-> arr[1], y |-> arr[2], z |-> arr[3]]
      [] t = "vec4" -> [x |-> arr[1], y |-> arr[2], z |-> arr[3], w |-> arr[4]]
      [] t = "color" -> [r |-> arr[1], g |-> arr[2], b |-> arr[3], a |-> arr[4]]

\* a default that starts every number at 1
TypeObjectOnes(t) ==
    CASE t = "f32" -> 1
      [] t = "vec2" -> [x |-> 1, y |-> 1]
      [] t = "vec3" -> [x |-> 1, y |-> 1, z |-> 1]
      [] t = "vec4" -> [x |-> 1, y |-> 1, z |-> 1, w |-> 1]
      [] t = "color" -> [r |-> 1, g |-> 1, b |-> 1, a |-> 1]

\* type.object()
TypeObject(t) ==
    CASE t = "f32" -> 0
      [] t = "vec2" -> [x |-> 0, y |-> 0]
      [] t = "vec3" -> [x |-> 0, y |-> 0, z |-> 0]
      [] t = "vec4" -> [x |-> 0, y |-> 0, z |-> 0, w |-> 0]
      [] t = "color" -> [r |-> 0, g |-> 0, b |-> 0, a |-> 1]

(***************************************************************************)
(* Struct                                                                  *)
(***************************************************************************)
MaxFields == 2      \* most user-declared fields of a struct
MaxRecs == 2        \* most records packed explicitly

Field(name, type) == [name |-> name, type |-> type]

\* get byteSize()
byteSize(d) == SumSeq([i \in 1..Len(d) |-> TypeSize(d[i].type)])

\* get floatSize()
floatSize(d) == byteSize(d) \div 4

FillerName(i) == "FILLER___" \o ToString(i)

\* a padding that always appends 4 - floatSize % 4 fillers, aligned or not
FillerCountUnguarded(d) == 4 - (floatSize(d) % 4)

\* the number of fillers the constructor appends
FillerCount(d) == IF floatSize(d) % 4 # 0 THEN 4 - (floatSize(d) % 4) ELSE 0

\* constructor(name, data): keeps the list and pads it to a multiple of 16 bytes
StructNew(d) == d \o [i \in 1..FillerCount(d) |-> Field(FillerName(i - 1), "f32")]

\* the keys of a host record, and the last field carrying a key (a later
\* assignment to obj[name] replaces an earlier one)
FieldNames(d) == {d[i].name : i \in 1..Len(d)}
LastIndex(d, n) == CHOOSE i \in 1..Len(d) : d[i].name = n /\ \A j \in (i + 1)..Len(d) : d[j].name # n

\* object()
StructObject(d) == [n \in FieldNames(d) |-> TypeObject(d[LastIndex(d, n)].type)]

\* an arr.set(src) that forgets the offset
SetAtStart(arr, src, offset) ==
    [i \in 1..Len(arr) |-> IF i <= Len(src) THEN src[i] ELSE arr[i]]

\* arr.set(src, offset), offsets counted from 0
SetAt(arr, src, offset) ==
    [i \in 1..Len(arr) |->
        IF i > offset /\ i <= offset + Len(src) THEN src[i - offset] ELSE arr[i]]

RECURSIVE PackFields(_, _, _, _)
\* this.data.forEach of toFloat32Array, for one record; st = [ok, arr, offset, error]
PackFields(d, k, val, st) ==
    IF ~st.ok \/ k > Len(d) THEN st
    ELSE IF d[k].name \notin DOMAIN val
         THEN [st EXCEPT !.ok = FALSE, !.error = "Missing field " \o d[k].name]
         ELSE LET p == TypeToFloat32Array(d[k].type, val[d[k].name])
              IN  IF ~p.ok
                  THEN [st EXCEPT !.ok = FALSE, !.error = "Expected an object"]
                  ELSE PackFields(d, k + 1, val,
                           [st EXCEPT !.arr = SetAt(@, p.arr, st.offset),
                                      !.offset = @ + TypeSize(d[k].type) \div 4])

RECURSIVE PackVals(_, _, _, _)
\* vals.forEach of toFloat32Array
PackVals(d, vals, i, st) ==
    IF ~st.ok \/ i > Len(vals) THEN st
    ELSE PackVals(d, vals, i + 1, PackFields(d, 1, vals[i], st))

\* toFloat32Array(vals), vals already an array
toFloat32Array(d, vals) ==
    PackVals(d, vals, 1,
             [ok |-> TRUE, arr |-> [i \in 1..(floatSize(d) * Len(vals)) |-> 0],
              offset |-> 0, error |-> ""])

Slice(arr, from, to) == [i \in 1..(Min(to, Len(arr)) - from) |-> arr[from + i]]

RECURSIVE UnpackFields(_, _, _, _)
\* this.data.forEach of fromFloat32Array; st = [ok, val, offset]; val is the
\* record so far, as a sequence of (name, value) assignments
UnpackFields(d, k, arr, st) ==
    IF ~st.ok \/ k > Len(d) THEN st
    ELSE LET n == TypeSize(d[k].type) \div 4
         IN  IF st.offset + n > Len(arr)
             THEN [st EXCEPT !.ok = FALSE]
             ELSE UnpackFields(d, k + 1, arr,
                      [st EXCEPT !.val = Append(@, <<d[k].name,
                                     TypeFromFloat32Array(d[k].type,
                                         Slice(arr, st.offset, st.offset + n))>>),
                                 !.offset = @ + n])

\* the object a sequence of assignments obj[name] = value leaves
ObjectOf(assigns) ==
    [n \in {assigns[i][1] : i \in 1..Len(assigns)} |->
        assigns[CHOOSE i \in 1..Len(assigns) :
                    /\ assigns[i][1] = n
                    /\ \A j \in (i + 1)..Len(assigns) : assigns[j][1] # n][2]]

RECURSIVE UnpackVals(_, _, _, _)
\* while (offset < arr.length) of fromFloat32Array
UnpackVals(d, arr, offset, vals) ==
    IF ~(offset < Len(arr)) THEN [ok |-> TRUE, vals |-> vals, error |-> ""]
    ELSE LET st == UnpackFields(d, 1, arr, [ok |-> TRUE, val |-> <<>>, offset |-> offset])
         IN  IF ~st.ok
             THEN [ok |-> FALSE, vals |-> <<>>,
                   error |-> "Struct.fromFloat32Array: Array too short for struct layout"]
             ELSE UnpackVals(d, arr, st.offset, Append(vals, ObjectOf(st.val)))

\* fromFloat32Array(arr)
fromFloat32Array(d, arr) == UnpackVals(d, arr, 0, <<>>)


(***************************************************************************)
(* Host records handed to a struct.  Record j of an array holds, in the    *)
(* slot at float offset k of the layout, the value 100 * j + k + 1, so all *)
(* slots of all records differ.  A record comes in three variants: "user"  *)
(* has exactly the user-declared fields, "full" has every field of         *)
(* Struct.data (the keys object() gives, fillers 0), "missing" lacks the   *)
(* first user-declared field.                                              *)
(***************************************************************************)
Variants == {"user", "full", "missing"}

UserNames == <<"a", "b", "c", "d", "e", "f">>

UserIndexes(org) == {i \in 1..Len(org) : org[i] \in {"user", "added"}}

OffsetOf(d, k) == floatSize(SubSeq(d, 1, k - 1))

SlotValue(j, k) == 100 * j + k + 1

ValueFor(t, j, off) ==
    CASE t = "f32" -> SlotValue(j, off)
      [] t = "vec2" -> [x |-> SlotValue(j, off), y |-> SlotValue(j, off + 1)]
      [] t = "vec3" -> [x |-> SlotValue(j, off), y |-> SlotValue(j, off + 1),
                        z |-> SlotValue(j, off + 2)]
      [] t = "vec4" -> [x |-> SlotValue(j, off), y |-> SlotValue(j, off + 1),
                        z |-> SlotValue(j, off + 2), w |-> SlotValue(j, off + 3)]
      [] t = "color" -> [r |-> SlotValue(j, off), g |-> SlotValue(j, off + 1),
                         b |-> SlotValue(j, off + 2), a |-> SlotValue(j, off + 3)]

RecordKeys(d, org, variant) ==
    LET users == UserIndexes(org)
        first == IF users = {} THEN 0 ELSE CHOOSE i \in users : \A j \in users : i <= j
    IN  CASE variant = "user" -> users
          [] variant = "full" -> 1..Len(d)
          [] variant = "missing" -> users \ {first}

RecordFor(d, org, variant, j) ==
    LET keys == RecordKeys(d, org, variant)
    IN  [n \in {d[i].name : i \in keys} |->
            LET i == CHOOSE i \in keys : d[i].name = n
            IN  IF org[i] # "filler" THEN ValueFor(d[i].type, j, OffsetOf(d, i))
                ELSE TypeObject(d[i].type)]

RecordsFor(d, org, variant, n) == [j \in 1..n |-> RecordFor(d, org, variant, j)]

(***************************************************************************)
(* Buffer handles and Struct.createBuffer.  An array of records handed to  *)
(* createBuffer is the run of records first+1 .. first+n of one variant;   *)
(* a buffer remembers the run it was packed from (recs) and the length of  *)
(* its Float32Array (floats) instead of the floats themselves.             *)
(***************************************************************************)
Ceiling == 65000
MaxChunks == 2      \* createBuffer is given up to MaxChunks * Ceiling + 1 records

Run(first, n) == [first |-> first, n |-> n]

\* vals.slice(from, to)
SliceRun(r, from, to) == Run(r.first + from, Min(to, r.n) - from)

\* this.toFloat32Array(vals) for a run of records of one variant: whether it
\* throws is decided by the keys, which all records of the run share
PackRun(d, org, variant, r) ==
    LET one == toFloat32Array(d, <<RecordFor(d, org, variant, r.first + 1)>>)
    IN  IF r.n = 0 THEN [ok |-> TRUE, floats |-> 0, error |-> ""]
        ELSE [ok |-> one.ok, floats |-> floatSize(d) * r.n, error |-> one.error]

NoBuffer ==
    [name |-> "", size |-> 0, floats |-> 0, recs |-> Run(0, 0), struct |-> FALSE,
     isArray |-> FALSE, hasCount |-> FALSE, count |-> 0]

\* new Buffer(name, data) of core.js, data being the packing of the run r
BufferNew(dev, name, packed, r) ==
    IF ~packed.ok THEN [ok |-> FALSE, error |-> packed.error, buf |-> NoBuffer]
    ELSE IF ~dev
         THEN [ok |-> FALSE, error |-> "Buffer: WebGPU device not initialized",
               buf |-> NoBuffer]
         ELSE [ok |-> TRUE, error |-> "",
               buf |-> [NoBuffer EXCEPT !.name = name, !.size = 4 * packed.floats,
                                        !.floats = packed.floats, !.recs = r]]

\* a chunk loop that advances by one record less than the ceiling it slices by
RECURSIVE ChunksOverlapping(_, _, _, _, _, _, _)
ChunksOverlapping(d, org, variant, dev, name, r, i) ==
    IF ~(i < r.n) THEN [ok |-> TRUE, error |-> "", bufs |-> <<>>]
    ELSE LET nextData == SliceRun(r, i, i + Ceiling)
             nb == BufferNew(dev, name, PackRun(d, org, variant, nextData), nextData)
             rest == ChunksOverlapping(d, org, variant, dev, name, r, i + Ceiling - 1)
         IN  IF ~nb.ok \/ ~rest.ok
             THEN [ok |-> FALSE, error |-> "Struct.createBuffer: Failed to create buffer chunk",
                   bufs |-> <<>>]
             ELSE [ok |-> TRUE, error |-> "",
                   bufs |-> <<[nb.buf EXCEPT !.hasCount = TRUE, !.count = nextData.n,
                                             !.struct = TRUE, !.isArray = TRUE]>>
                            \o rest.bufs]

RECURSIVE Chunks(_, _, _, _, _, _, _)
\* for (let i = 0; i < vals.length; i += 65000)
Chunks(d, org, variant, dev, name, r, i) ==
    IF ~(i < r.n) THEN [ok |-> TRUE, error |-> "", bufs |-> <<>>]
    ELSE LET nextData == SliceRun(r, i, i + Ceiling)
             nb == BufferNew(dev, name, PackRun(d, org, variant, nextData), nextData)
             rest == Chunks(d, org, variant, dev, name, r, i + Ceiling)
         IN  IF ~nb.ok \/ ~rest.ok
             THEN [ok |-> FALSE, error |-> "Struct.createBuffer: Failed to create buffer chunk",
                   bufs |-> <<>>]
             ELSE [ok |-> TRUE, error |-> "",
                   bufs |-> <<[nb.buf EXCEPT !.hasCount = TRUE, !.count = nextData.n,
                                             !.struct = TRUE, !.isArray = TRUE]>>
                            \o rest.bufs]

\* createBuffer(name, vals): kind is "null", "object" (one record) or "array"
\* (n records); the result is one handle (isList FALSE) or a list of handles
CreateBufferResult(d, org, dev, name, kind, variant, n) ==
    CASE kind = "null" ->
           [ok |-> FALSE, error |-> "Struct.createBuffer: Values are required",
            isList |-> FALSE, bufs |-> <<>>]
      [] kind = "object" ->
           LET nb == BufferNew(dev, name, PackRun(d, org, variant, Run(0, 1)), Run(0, 1))
           IN  [ok |-> nb.ok, error |-> nb.error, isList |-> FALSE,
                bufs |-> IF nb.ok THEN <<[nb.buf EXCEPT !.struct = TRUE]>> ELSE <<>>]
      [] kind = "array" ->
           IF n < 1
           THEN [ok |-> FALSE, error |-> "Struct.createBuffer: Empty values array",
                 isList |-> FALSE, bufs |-> <<>>]
           ELSE IF n < Ceiling
                THEN LET nb == BufferNew(dev, name, PackRun(d, org, variant, Run(0, n)),
                                         Run(0, n))
                     IN  [ok |-> nb.ok,
                          error |-> IF nb.ok THEN ""
                                    ELSE "Struct.createBuffer: Failed to create buffer",
                          isList |-> FALSE,
                          bufs |-> IF nb.ok
                                   THEN <<[nb.buf EXCEPT !.struct = TRUE, !.isArray = TRUE]>>
                                   ELSE <<>>]
                ELSE LET c == Chunks(d, org, variant, dev, name, Run(0, n), 0)
                     IN  [ok |-> c.ok, error |-> c.error, isList |-> TRUE, bufs |-> c.bufs]

\* numbers of records createBuffer is tried with: none, few, and the counts
\* around every multiple of the ceiling
BufferCounts ==
    {0, 1, 2} \cup {k * Ceiling + e : k \in 1..MaxChunks, e \in {-1, 0, 1}}

(***************************************************************************)
(* Buffer (core.js) and the buffers of utilities.js                        *)
(*                                                                         *)
(* A data argument is [kind, vals]: kind "Array" or "Float32Array" with    *)
(* the numbers vals, or "null" / "other" for an argument that is neither.  *)
(* The device side of a buffer is what the calls on it were: wrote says    *)
(* whether the latest update reached device.queue.writeBuffer ("none"),    *)
(* and whether that call returned ("done") or raised ("raised").           *)
(***************************************************************************)
MaxFloats == 3      \* most floats of a buffer built directly
MaxTags == 2        \* distinct contents an update of one length may carry

ArrayLike == {"Array", "Float32Array"}

Arg(kind, vals) == [kind |-> kind, vals |-> vals]

\* new Float32Array(data)
ToFloat32(vals) == [i \in 1..Len(vals) |-> F32(vals[i])]

\* the floats an update of tag v and length n carries
Floats(v, n) == [i \in 1..n |-> 10 * v + i]

NoBuf == [made |-> FALSE, name |-> "", size |-> 0, data |-> <<>>, alloc |-> 0]

\* new Buffer(name, data): alloc keeps the byte length given to device.createBuffer
BufferCtor(dev, name, arg) ==
    IF ~dev
    THEN [buf |-> NoBuf,
          error |-> "Buffer: WebGPU device not initialized. Call initCanvas() first."]
    ELSE IF arg.kind \notin ArrayLike
         THEN [buf |-> NoBuf,
               error |-> "Failed to create Buffer: Buffer: Data must be an Array or Float32Array"]
         ELSE [buf |-> [made |-> TRUE, name |-> name, size |-> 4 * Len(arg.vals),
                        data |-> ToFloat32(arg.vals), alloc |-> 4 * Len(arg.vals)],
               error |-> ""]

\* an update that refuses data of another byte length than the buffer's
UpdateSameLength(buf, arg, raises) ==
    IF arg.kind \notin ArrayLike
    THEN [buf |-> buf, wrote |-> "none",
          error |-> "Buffer.update: Data must be an Array or Float32Array"]
    ELSE IF 4 * Len(arg.vals) # buf.size
         THEN [buf |-> buf, wrote |-> "none",
               error |-> "Failed to update Buffer: length mismatch"]
         ELSE IF raises
              THEN [buf |-> buf, wrote |-> "raised",
                    error |-> "Failed to update Buffer: write"]
              ELSE [buf |-> [buf EXCEPT !.data = ToFloat32(arg.vals)], wrote |-> "done",
                    error |-> ""]

\* update(data): raises says whether device.queue.writeBuffer raised
Update(buf, arg, raises) ==
    IF arg.kind \notin ArrayLike
    THEN [buf |-> buf, wrote |-> "none",
          error |-> "Buffer.update: Data must be an Array or Float32Array"]
    ELSE IF raises
         THEN [buf |-> buf, wrote |-> "raised",
               error |-> "Failed to update Buffer: write"]
         ELSE [buf |-> [buf EXCEPT !.data = ToFloat32(arg.vals)], wrote |-> "done",
               error |-> ""]

\* mouseStruct of createMouseBuffer, and the data of its buffer
MouseStruct == StructNew(<<Field("pos", "vec2"), Field("button", "f32")>>)
MouseData == toFloat32Array(MouseStruct, <<StructObject(MouseStruct)>>).arr

\* the Float32Array the mouse handler builds: x, y, mouseIsDown
MouseFloats(v, buttons) == <<10 * v + 1, 10 * v + 2, IF buttons = 1 THEN 0 ELSE 1>>

NoCall == [op |-> "", arg |-> Arg("null", <<>>), error |-> "", wrote |-> "none",
           before |-> <<>>]

Call(op, arg, error, wrote, before) ==
    [op |-> op, arg |-> arg, error |-> error, wrote |-> wrote, before |-> before]

(***************************************************************************)
(* WGSLParser (wgsl.js)                                                    *)
(*                                                                         *)
(* A text is the sequence of its characters, each a one-character string;  *)
(* positions count from 0 as in the source, so the character at position   *)
(* p is code[p + 1].                                                       *)
(***************************************************************************)
\* what /\s/ matches among the characters of the texts
WhiteSpace == {" ", "\n", "\t", "\r"}

\* what /[a-zA-Z0-9_]/ matches
IdentChars ==
    {"a", "b", "c", "d", "e", "f", "g", "h", "i", "j", "k", "l", "m", "n", "o", "p",
     "q", "r", "s", "t", "u", "v", "w", "x", "y", "z",
     "A", "B", "C", "D", "E", "F", "G", "H", "I", "J", "K", "L", "M", "N", "O", "P",
     "Q", "R", "S", "T", "U", "V", "W", "X", "Y", "Z",
     "0", "1", "2", "3", "4", "5", "6", "7", "8", "9", "_"}

\* peek(offset)
peek(c, pos, offset) ==
    IF pos + offset + 1 \in 1..Len(c) THEN c[pos + offset + 1] ELSE ""

\* code.slice(from, to)
CodeSlice(c, from, to) == SubSeq(c, from + 1, Min(to, Len(c)))

RECURSIVE TrimStart(_)
TrimStart(t) == IF t # <<>> /\ Head(t) \in WhiteSpace THEN TrimStart(Tail(t)) ELSE t

RECURSIVE TrimEnd(_)
TrimEnd(t) ==
    IF t # <<>> /\ t[Len(t)] \in WhiteSpace THEN TrimEnd(SubSeq(t, 1, Len(t) - 1)) ELSE t

\* String.prototype.trim
Trim(t) == TrimEnd(TrimStart(t))

RECURSIVE JoinLines(_)
\* lines.join('\n')
JoinLines(lines) ==
    IF lines = <<>> THEN <<>>
    ELSE IF Len(lines) = 1 THEN lines[1]
         ELSE lines[1] \o <<"\n">> \o JoinLines(Tail(lines))

RECURSIVE skipWhitespace(_, _)
skipWhitespace(c, pos) ==
    IF pos < Len(c) /\ peek(c, pos, 0) \in WhiteSpace THEN skipWhitespace(c, pos + 1) ELSE pos

\* the index of the first newline at or after index s, or Len(t) + 1
NewlineFrom(t, s) ==
    IF \E i \in s..Len(t) : t[i] = "\n"
    THEN CHOOSE i \in s..Len(t) : t[i] = "\n" /\ \A j \in s..(i - 1) : t[j] # "\n"
    ELSE Len(t) + 1

\* while (position < code.length && peek() !== '\n') advance(): the loop
\* stops on the first newline at or after the position, or at the end
LineEnd(c, pos) == IF pos < Len(c) THEN NewlineFrom(c, pos + 1) - 1 ELSE pos

RECURSIVE BlockCommentEnd(_, _)
\* the loop of skipComment over a block comment
BlockCommentEnd(c, pos) ==
    IF pos < Len(c) - 1
    THEN IF peek(c, pos, 0) = "*" /\ peek(c, pos, 1) = "/" THEN pos + 2
         ELSE BlockCommentEnd(c, pos + 1)
    ELSE pos

\* skipComment(): the position it leaves
skipComment(c, pos) ==
    IF peek(c, pos, 0) = "/" /\ peek(c, pos, 1) = "/" THEN LineEnd(c, pos)
    ELSE IF peek(c, pos, 0) = "/" /\ peek(c, pos, 1) = "*" THEN BlockCommentEnd(c, pos + 2)
         ELSE pos

RECURSIVE skipWhitespaceAndComments(_, _)
\* skipped = this.position > before, and the loop again if so
SkipAgain(c, before, after) ==
    IF after > before THEN skipWhitespaceAndComments(c, after) ELSE after

skipWhitespaceAndComments(c, pos) ==
    SkipAgain(c, pos, skipComment(c, skipWhitespace(c, pos)))

RECURSIVE readIdentifier(_, _)
\* readIdentifier(): the position after the identifier (it is empty when
\* that is the position before)
readIdentifier(c, pos) ==
    IF pos < Len(c) /\ peek(c, pos, 0) \in IdentChars THEN readIdentifier(c, pos + 1) ELSE pos

RECURSIVE MatchChars(_, _, _, _)
\* the for loop of matchKeyword: -1 when a character differs
MatchChars(c, pos, keyword, i) ==
    IF i > Len(keyword) THEN pos
    ELSE IF peek(c, pos, 0) # keyword[i] THEN -1
         ELSE MatchChars(c, pos + 1, keyword, i + 1)

\* the returns of matchKeyword, after being the outcome of its for loop
KeywordMatched(c, start, after) ==
    IF after = -1 \/ peek(c, after, 0) \in IdentChars
    THEN [ok |-> FALSE, pos |-> start]
    ELSE [ok |-> TRUE, pos |-> after]

\* matchKeyword(keyword): whether it matched and the position it leaves
matchKeyword(c, pos, keyword) ==
    KeywordMatched(c, pos, MatchChars(c, skipWhitespaceAndComments(c, pos), keyword, 1))

RECURSIVE StringEnd(_, _)
\* the loop over a string literal, from after its opening quote
StringEnd(c, pos) ==
    IF pos < Len(c) /\ peek(c, pos, 0) # "\""
    THEN StringEnd(c, IF peek(c, pos, 0) = "\\" THEN pos + 2 ELSE pos + 1)
    ELSE IF peek(c, pos, 0) = "\"" THEN pos + 1 ELSE pos

\* a loop body that does not count the opening braces it meets, so that
\* the first closing brace is taken for the matching one
BraceStepFirstClose(c, p, braceCount) ==
    IF peek(c, p, 0) = "{" THEN [pos |-> p + 1, braceCount |-> braceCount]
    ELSE IF peek(c, p, 0) = "}" THEN [pos |-> p + 1, braceCount |-> braceCount - 1]
    ELSE IF peek(c, p, 0) = "\"" THEN [pos |-> StringEnd(c, p + 1), braceCount |-> braceCount]
    ELSE [pos |-> p + 1, braceCount |-> braceCount]

\* the body of the loop of findMatchingBrace, p being the position after
\* skipWhitespaceAndComments: the position and the count it leaves
BraceStep(c, p, braceCount) ==
    IF peek(c, p, 0) = "{" THEN [pos |-> p + 1, braceCount |-> braceCount + 1]
    ELSE IF peek(c, p, 0) = "}" THEN [pos |-> p + 1, braceCount |-> braceCount - 1]
    ELSE IF peek(c, p, 0) = "\"" THEN [pos |-> StringEnd(c, p + 1), braceCount |-> braceCount]
    ELSE [pos |-> p + 1, braceCount |-> braceCount]

RECURSIVE BraceLoop(_, _)
\* while (position < code.length && braceCount > 0) of findMatchingBrace,
\* e being the position and the count before an iteration
BraceLoop(c, e) ==
    IF ~(e.pos < Len(c) /\ e.braceCount > 0) THEN e
    ELSE BraceLoop(c, BraceStep(c, skipWhitespaceAndComments(c, e.pos), e.braceCount))

\* return braceCount === 0 ? this.position : -1
BraceResult(e) == IF e.braceCount = 0 THEN e.pos ELSE -1

\* findMatchingBrace(): the position after the matching brace, or -1
findMatchingBrace(c, pos) ==
    IF peek(c, pos, 0) # "{" THEN -1 ELSE BraceResult(BraceLoop(c, [pos |-> pos + 1, braceCount |-> 1]))

RECURSIVE ParenLoop(_, _, _)
\* while (position < code.length && parenCount > 0) of parseFunction
ParenLoop(c, pos, parenCount) ==
    IF ~(pos < Len(c) /\ parenCount > 0) THEN pos
    ELSE ParenLoop(c, pos + 1,
                   IF peek(c, pos, 0) = "(" THEN parenCount + 1
                   ELSE IF peek(c, pos, 0) = ")" THEN parenCount - 1 ELSE parenCount)

RECURSIVE AngleLoop(_, _, _)
\* while (position < code.length && angleCount > 0) of parseFunction
AngleLoop(c, pos, angleCount) ==
    IF ~(pos < Len(c) /\ angleCount > 0) THEN pos
    ELSE AngleLoop(c, pos + 1,
                   IF peek(c, pos, 0) = "<" THEN angleCount + 1
                   ELSE IF peek(c, pos, 0) = ">" THEN angleCount - 1 ELSE angleCount)

RECURSIVE ReturnTypeEnd(_, _)
\* the loop of parseFunction over the return type
ReturnTypeEnd(c, pos) ==
    IF pos < Len(c) /\ peek(c, pos, 0) # "{" /\ peek(c, pos, 0) \notin WhiteSpace
    THEN ReturnTypeEnd(c, IF peek(c, pos, 0) = "<" THEN AngleLoop(c, pos + 1, 1) ELSE pos + 1)
    ELSE pos

\* parseFunction() returns null (ok FALSE) with the position back at start,
\* or the function's text with the position after its closing brace.  Its
\* steps, last to first, each from the position the step before left:
NoFunction(start) == [ok |-> FALSE, pos |-> start, text |-> <<>>]

\* a function's text cut one character short, before its closing brace
FunctionCodeShort(c, start, bodyEnd) ==
    IF bodyEnd = -1 THEN NoFunction(start)
    ELSE [ok |-> TRUE, pos |-> bodyEnd, text |-> Trim(CodeSlice(c, start, bodyEnd - 1))]

\* const functionCode = this.code.slice(start, bodyEnd).trim()
FunctionCode(c, start, bodyEnd) ==
    IF bodyEnd = -1 THEN NoFunction(start)
    ELSE [ok |-> TRUE, pos |-> bodyEnd, text |-> Trim(CodeSlice(c, start, bodyEnd))]

\* "Skip return type if present", then "Find function body"
SkipReturnType(c, start, pos) ==
    FunctionCode(c, start,
        findMatchingBrace(c,
            skipWhitespaceAndComments(c,
                IF peek(c, pos, 0) = "-" /\ peek(c, pos, 1) = ">"
                THEN ReturnTypeEnd(c, skipWhitespaceAndComments(c, pos + 2))
                ELSE pos)))

\* "Find parameters" and "Skip to after parameters"
FindParameters(c, start, pos) ==
    IF peek(c, pos, 0) # "(" THEN NoFunction(start)
    ELSE SkipReturnType(c, start, skipWhitespaceAndComments(c, ParenLoop(c, pos + 1, 1)))

\* if (!name): the identifier read is empty
NameRead(c, start, nameStart, nameEnd) ==
    IF nameEnd = nameStart THEN NoFunction(start)
    ELSE FindParameters(c, start, skipWhitespaceAndComments(c, nameEnd))

\* "Read function name"
ReadName(c, start, nameStart) == NameRead(c, start, nameStart, readIdentifier(c, nameStart))

\* "Skip 'fn'"
SkipFn(c, start, kw) ==
    IF ~kw.ok THEN NoFunction(start)
    ELSE ReadName(c, start, skipWhitespaceAndComments(c, kw.pos))

parseFunction(c, start) == SkipFn(c, start, matchKeyword(c, start, <<"f", "n">>))

\* the position after the line that ends at eol
LineNext(c, eol) == IF peek(c, eol, 0) = "\n" THEN eol + 1 ELSE eol

\* if (line) this.body.push(line)
PushLine(ps, next, line) ==
    [ps EXCEPT !.position = next, !.body = IF line # <<>> THEN Append(@, line) ELSE @]

\* a line taken without moving the cursor past it
TakeLineStuck(c, ps, lineStart, next) ==
    PushLine(ps, lineStart, Trim(CodeSlice(c, lineStart, next)))

\* "Not a function, add to body"
TakeLine(c, ps, lineStart, next) ==
    PushLine(ps, next, Trim(CodeSlice(c, lineStart, next)))

\* a failed attempt that puts the cursor back and takes no line
FunctionOrLineRestore(c, ps, pos, fnCode) ==
    IF fnCode.ok /\ fnCode.text # <<>>
    THEN [ps EXCEPT !.position = fnCode.pos, !.functions = Append(@, fnCode.text)]
    ELSE [ps EXCEPT !.position = pos]

\* if (fnCode) ... else ...
FunctionOrLine(c, ps, pos, fnCode) ==
    IF fnCode.ok /\ fnCode.text # <<>>
    THEN [ps EXCEPT !.position = fnCode.pos, !.functions = Append(@, fnCode.text)]
    ELSE TakeLine(c, ps, pos, LineNext(c, LineEnd(c, pos)))

\* if (this.position >= this.code.length) break
BreakOrParse(c, ps, pos) ==
    IF pos >= Len(c) THEN [ps EXCEPT !.position = pos, !.broke = TRUE]
    ELSE FunctionOrLine(c, ps, pos, parseFunction(c, pos))

\* one iteration of the loop of parse(), on a parser [position, functions, body]
ParseIteration(c, ps) == BreakOrParse(c, ps, skipWhitespaceAndComments(c, ps.position))

(***************************************************************************)
(* The texts scanned: function definitions and loose lines, one piece      *)
(* after the other, joined by newlines.  The i-th piece carries the i-th    *)
(* letter in its name, so that no two pieces of a text are the same.       *)
(***************************************************************************)
MaxPieces == 4      \* most pieces of a text
MaxDepth == 2       \* deepest nesting of braces inside a function's body

Letters == <<"a", "b", "c", "d", "e", "f">>

RECURSIVE Block(_)
\* a body whose braces nest d deep, over several lines
Block(d) ==
    IF d = 0 THEN <<"{", " ", "r", ";", " ", "}">>
    ELSE <<"{", "\n", " ", "x", ";", " ">> \o Block(d - 1) \o <<" ", "y", ";", "\n", "}">>

\* fn <letter>() <block>
NestedFn(i, d) == <<"f", "n", " ", Letters[i], "(", ")", " ">> \o Block(d)

\* fn <letter>(p: V<(f32)>) -> vec4<f32> { // }
\*  r; }
GenericFn(i) ==
    <<"f", "n", " ", Letters[i], "(", "p", ":", " ", "V", "<", "f", "3", "2", ">", ")",
      " ", "-", ">", " ", "v", "e", "c", "4", "<", "f", "3", "2", ">", " ",
      "{", " ", "/", "/", " ", "}", "\n", " ", "r", ";", " ", "}">>

\* a statement, and the line that holds it between blanks
Statement(i) == <<"l", "e", "t", " ", Letters[i], ";">>
LooseLine(i) == <<" ">> \o Statement(i) \o <<" ", "\t">>

\* the nestings tried: none, one level, and the deepest
Depths == {0, 1, MaxDepth}

\* the pieces the i-th place of a text can hold: kind "fn" (a function
\* definition), "line" (a statement line) or "blank" (a line of blanks)
PiecesAt(i) ==
    {[kind |-> "fn", text |-> NestedFn(i, d), keep |-> NestedFn(i, d)] : d \in Depths}
    \cup {[kind |-> "fn", text |-> GenericFn(i), keep |-> GenericFn(i)]}
    \cup {[kind |-> "line", text |-> LooseLine(i), keep |-> Statement(i)]}
    \cup {[kind |-> "blank", text |-> <<" ">>, keep |-> <<>>]}

RECURSIVE PieceLists(_)
\* the lists of n pieces
PieceLists(n) ==
    IF n = 0 THEN {<<>>}
    ELSE {Append(l, q) : l \in PieceLists(n - 1), q \in PiecesAt(n)}

\* texts that end inside a brace, a parenthesis, an angle bracket, a block
\* comment or a string literal, and a closing brace that closes nothing
OpenBrace(i) == <<"f", "n", " ", Letters[i], "(", ")", " ", "{", " ", "x", ";">>
OpenParen(i) == <<"f", "n", " ", Letters[i], "(", "p">>
OpenAngle(i) == <<"f", "n", " ", Letters[i], "(", ")", " ", "-", ">", " ", "v", "<", "f",
                  " ", "{", "}">>
OpenComment(i) == <<"/", "*", " ", Letters[i], " ", "{">>
OpenString(i) == <<"f", "n", " ", Letters[i], "(", ")", " ", "{", " ", "\"", "s", " ", "}">>
StrayClose == <<" ", "}">>

\* the pieces of a malformed text
BrokenAt(i) ==
    {[kind |-> "broken", text |-> t, keep |-> <<>>] :
        t \in {OpenBrace(i), OpenParen(i), OpenAngle(i), OpenComment(i), OpenString(i),
               StrayClose}}

MaxAny == 2         \* most pieces of a text that may be malformed

RECURSIVE AnyLists(_)
\* the lists of n pieces, malformed or not
AnyLists(n) ==
    IF n = 0 THEN {<<>>}
    ELSE {Append(l, q) : l \in AnyLists(n - 1), q \in PiecesAt(n) \cup BrokenAt(n)}

\* the text of a list of pieces
TextOf(ps) == JoinLines([i \in 1..Len(ps) |-> ps[i].text])

NewParser == [position |-> 0, functions |-> <<>>, body |-> <<>>, broke |-> FALSE]

(***************************************************************************)
(* The regular expressions of wgsl.js and of the pass constructor.  A      *)
(* pattern is a sequence whose elements are a character (matching itself), *)
(* "\\b" (a word boundary), "\\s+" (one or more white-space characters)    *)
(* or "\\s*" (any number of them).  Indexes into a text count from 1 here. *)
(* In every pattern of the source a white-space run is followed by a       *)
(* character that is not white space, so the longest run is the only one   *)
(* that can lead to a match.                                               *)
(***************************************************************************)
CharAt(t, i) == IF i >= 1 /\ i <= Len(t) THEN t[i] ELSE ""

\* \b holds between the characters i - 1 and i when exactly one of them is a
\* word character (\w is [a-zA-Z0-9_])
WordBoundary(t, i) == (CharAt(t, i - 1) \in IdentChars) # (CharAt(t, i) \in IdentChars)

RECURSIVE SpaceEnd(_, _)
SpaceEnd(t, i) == IF CharAt(t, i) \in WhiteSpace THEN SpaceEnd(t, i + 1) ELSE i

RECURSIVE MatchAt(_, _, _, _)
\* whether the elements k.. of the pattern match the text from index i on
MatchAt(t, i, pat, k) ==
    IF k > Len(pat) THEN TRUE
    ELSE IF pat[k] = "\\b" THEN WordBoundary(t, i) /\ MatchAt(t, i, pat, k + 1)
    ELSE IF pat[k] = "\\s*" THEN MatchAt(t, SpaceEnd(t, i), pat, k + 1)
    ELSE IF pat[k] = "\\s+"
         THEN CharAt(t, i) \in WhiteSpace /\ MatchAt(t, SpaceEnd(t, i), pat, k + 1)
         ELSE CharAt(t, i) = pat[k] /\ MatchAt(t, i + 1, pat, k + 1)

\* the indexes at which the pattern matches
Matches(t, pat) == {i \in 1..(Len(t) + 1) : MatchAt(t, i, pat, 1)}

\* the indexes at which the text s occurs in t, character for character
Occurrences(t, s) == {i \in 1..(Len(t) - Len(s) + 1) : SubSeq(t, i, i + Len(s) - 1) = s}

\* regex.test(text), text.match(regex)
Test(t, pat) == \E i \in 1..(Len(t) + 1) : MatchAt(t, i, pat, 1)

\* /\bword\b/
WordPattern(word) == <<"\\b">> \o word \o <<"\\b">>

\* /\bname\s*\(/
CallPattern(name) == <<"\\b">> \o name \o <<"\\s*", "(">>

\* /fn\s+name\s*\(/
DefPattern(name) == <<"f", "n", "\\s+">> \o name \o <<"\\s*", "(">>

RECURSIVE Flat(_, _, _)
\* the concatenation of the segments lo..hi
Flat(segs, lo, hi) ==
    IF lo > hi THEN <<>>
    ELSE IF lo = hi THEN segs[lo]
         ELSE Flat(segs, lo, (lo + hi) \div 2) \o Flat(segs, (lo + hi) \div 2 + 1, hi)

\* what the character at index i becomes when the matches of a word that
\* start at the indexes of `starts` are replaced by repl
ReplacedAt(t, i, n, repl, starts) ==
    IF i \in starts THEN repl
    ELSE IF \E j \in starts : j < i /\ i < j + n THEN <<>>
         ELSE <<t[i]>>

ReplaceStarts(t, n, repl, starts) ==
    Flat([i \in 1..Len(t) |-> ReplacedAt(t, i, n, repl, starts)], 1, Len(t))

\* text.replace(/\bword\b/g, repl)
ReplaceWord(t, word, repl) ==
    ReplaceStarts(t, Len(word), repl, Matches(t, WordPattern(word)))

Digit(n) == <<"0", "1", "2", "3", "4", "5", "6", "7", "8", "9">>[n + 1]

RECURSIVE Decimal(_)
Decimal(n) == IF n < 10 THEN <<Digit(n)>> ELSE Decimal(n \div 10) \o <<Digit(n % 10)>>

\* n.toFixed(2) of a whole number n
toFixed2(n) == Decimal(n) \o <<".", "0", "0">>

WidthWord == <<"w", "i", "d", "t", "h">>
HeightWord == <<"h", "e", "i", "g", "h", "t">>
NoiseName == <<"n", "o", "i", "s", "e">>
Noise2Name == <<"n", "o", "i", "s", "e", "2">>
Noise3Name == <<"n", "o", "i", "s", "e", "3">>
MainName == <<"m", "a", "i", "n">>

(***************************************************************************)
(* noise.js.  The library text is the text of the source with the bodies   *)
(* of its functions shortened: it keeps the white space around the two     *)
(* blocks, the functions noise1 and noise2 (the source defines neither     *)
(* `noise` nor `noise3`, and has no word `width`, `height` or `main`), and *)
(* their use of noiseOffset.  noiseBuffer is 0 while the export is         *)
(* undefined, and otherwise the number of the Buffer construction that     *)
(* made it.                                                                *)
(***************************************************************************)
wgslNoise == <<"\n", "f", "n", " ", "n", "o", "i", "s", "e", "1", "(", "p", ":",
      " ", "f", "3", "2", ")", " ", "-", ">", " ", "f", "3", "2",
      " ", "{", " ", "n", "o", "i", "s", "e", "O", "f", "f", "s",
      "e", "t", ".", "x", ";", " ", "}", "\n">>

wgslNoise2 == <<"f", "n", " ", "n", "o", "i", "s", "e", "2", "(", "v", ":", " ",
      "v", "e", "c", "2", "<", "f", "3", "2", ">", ")", " ", "-",
      ">", " ", "f", "3", "2", " ", "{", " ", "n", "o", "i", "s",
      "e", "O", "f", "f", "s", "e", "t", ".", "x", "y", ";", " ", "}">>

NoiseText == <<"\n", " ", " ", " ", " ">> \o wgslNoise \o <<"\n", " ", " ", " ", " ">> \o wgslNoise2 \o <<"\n", " ", " ", " ", " ">>

NoiseOffsetArg == Arg("Array", <<1, 2, 3>>)

\* a getNoiseCode without its `if (!noiseBuffer)`
GetNoiseCodeAlways(dev, nb, made) ==
    IF BufferCtor(dev, "noiseOffset", NoiseOffsetArg).error # ""
    THEN [ok |-> FALSE, code |-> <<>>, noiseBuffer |-> nb, made |-> made]
    ELSE [ok |-> TRUE, code |-> NoiseText, noiseBuffer |-> made + 1, made |-> made + 1]

\* getNoiseCode()
GetNoiseCode(dev, nb, made) ==
    IF nb # 0
    THEN [ok |-> TRUE, code |-> NoiseText, noiseBuffer |-> nb, made |-> made]
    ELSE IF BufferCtor(dev, "noiseOffset", NoiseOffsetArg).error # ""
         THEN [ok |-> FALSE, code |-> <<>>, noiseBuffer |-> nb, made |-> made]
         ELSE [ok |-> TRUE, code |-> NoiseText, noiseBuffer |-> made + 1,
               made |-> made + 1]

(***************************************************************************)
(* wgsl (wgsl.js)                                                          *)
(***************************************************************************)
RECURSIVE ParseLoop(_, _)
\* the loop of parse()
ParseLoop(c, ps) ==
    IF ps.position < Len(c) /\ ~ps.broke THEN ParseLoop(c, ParseIteration(c, ps)) ELSE ps

ParseResult(ps) == [functions |-> ps.functions, body |-> JoinLines(ps.body)]

\* extractFunctionsAndBody(code)
extractFunctionsAndBody(c) == ParseResult(ParseLoop(c, NewParser))

RECURSIVE JoinBlank(_)
\* functions.join('\n\n')
JoinBlank(fs) ==
    IF fs = <<>> THEN <<>>
    ELSE IF Len(fs) = 1 THEN fs[1]
         ELSE fs[1] \o <<"\n", "\n">> \o JoinBlank(Tail(fs))

RECURSIVE SplitFrom(_, _)
SplitFrom(t, s) ==
    IF NewlineFrom(t, s) > Len(t) THEN <<SubSeq(t, s, Len(t))>>
    ELSE <<SubSeq(t, s, NewlineFrom(t, s) - 1)>> \o SplitFrom(t, NewlineFrom(t, s) + 1)

\* text.split('\n')
SplitLines(t) == SplitFrom(t, 1)

\* line => line.trim() ? '  ' + line : line, with no indentation at all
IndentLineNone(line) == line

\* line => line.trim() ? '  ' + line : line
IndentLine(line) == IF Trim(line) # <<>> THEN <<" ", " ">> \o line ELSE line

IndentLines(lines) == [i \in 1..Len(lines) |-> IndentLine(lines[i])]

\* body.split('\n').map(...).join('\n')
IndentBody(b) == JoinLines(IndentLines(SplitLines(b)))

MainHeader ==
    <<"@", "c", "o", "m", "p", "u", "t", "e", " ", "@", "w", "o", "r",
      "k", "g", "r", "o", "u", "p", "_", "s", "i", "z", "e", "(",
      "1", ")", "\n">>
    \o <<"f", "n", " ", "m", "a", "i", "n", "(", "@", "b", "u", "i", "l",
      "t", "i", "n", "(", "g", "l", "o", "b", "a", "l", "_", "i",
      "n", "v", "o", "c", "a", "t", "i", "o", "n", "_", "i", "d",
      ")", " ", "i", "d", ":", " ", "v", "e", "c", "3", "<", "u",
      "3", "2", ">", ")", " ", "{", "\n">>

\* the text built from the functions and the body (lines 379-400)
WgslBuild(r) ==
    (IF Len(r.functions) > 0 THEN JoinBlank(r.functions) \o <<"\n", "\n">> ELSE <<>>)
    \o MainHeader
    \o (IF r.body # <<>> THEN IndentBody(r.body) \o <<"\n">> ELSE <<>>)
    \o <<"}">>

WgslOk(t, nb, made) == [ok |-> TRUE, text |-> t, noiseBuffer |-> nb, made |-> made]

WgslThrew(nb, made) == [ok |-> FALSE, text |-> <<>>, noiseBuffer |-> nb, made |-> made]

\* a wgsl that wraps the text in an entry point whether or not it has one
WgslFinishAlways(t, nb, made) == WgslOk(WgslBuild(extractFunctionsAndBody(t)), nb, made)

\* lines 370-400, on the trimmed text
WgslFinish(t, nb, made) ==
    IF Test(t, DefPattern(MainName)) THEN WgslOk(t, nb, made)
    ELSE WgslOk(WgslBuild(extractFunctionsAndBody(t)), nb, made)

\* code = getNoiseCode() + '\n\n' + code, and on
WgslInject(t, g) ==
    IF ~g.ok THEN WgslThrew(g.noiseBuffer, g.made)
    ELSE WgslFinish(Trim(g.code \o <<"\n", "\n">> \o t), g.noiseBuffer, g.made)

UsesNoise(t) ==
    \/ Test(t, CallPattern(NoiseName))
    \/ Test(t, CallPattern(Noise2Name))
    \/ Test(t, CallPattern(Noise3Name))

\* a test for a definition of `noise` alone
DefinesNoiseExact(t) == Test(t, DefPattern(NoiseName))

DefinesNoise(t) ==
    \/ Test(t, DefPattern(NoiseName))
    \/ Test(t, DefPattern(Noise2Name))
    \/ Test(t, DefPattern(Noise3Name))

\* lines 359-368, on the text with width and height replaced
WgslNoise(t, dev, nb, made) ==
    IF UsesNoise(t) /\ ~DefinesNoise(t)
    THEN WgslInject(t, GetNoiseCode(dev, nb, made))
    ELSE WgslFinish(Trim(t), nb, made)

\* lines 355-357
WgslReplace(t, w, h) ==
    ReplaceWord(ReplaceWord(t, WidthWord, toFixed2(w)), HeightWord, toFixed2(h))

\* wgsl`t`, with the canvas width w and height h (0 while initCanvas has not
\* set them: width.toFixed then throws a TypeError)
Wgsl(t, w, h, dev, nb, made) ==
    IF w = 0 \/ h = 0 THEN WgslThrew(nb, made)
    ELSE WgslNoise(WgslReplace(t, w, h), dev, nb, made)

(***************************************************************************)
(* The templates handed to wgsl: up to MaxTmpl pieces, one per line.  A    *)
(* piece is [pre, word, post]: its text is pre, then the word (`width`,    *)
(* `height` or nothing), then post.  `main` tells whether the piece        *)
(* defines the entry point, `calls` whether it calls a noise function and  *)
(* `defines` whether it defines one.                                       *)
(***************************************************************************)
MaxTmpl == 3        \* most pieces of a template
MaxWgslCalls == 2   \* wgsl and getNoiseCode calls per behaviour

TmplPiece(pre, word, post, main, calling, defining) ==
    [pre |-> pre, word |-> word, post |-> post, main |-> main, calls |-> calling,
     defines |-> defining]

TmplAt(i) ==
    IF i = 1
    THEN {TmplPiece(<<" ", " ">>, <<>>, <<>>, FALSE, FALSE, FALSE),
          TmplPiece(<<"f", "n", " ", "a", "(", ")", " ", "{", " ", "b", ";", " ", "}">>, <<>>, <<>>, FALSE, FALSE, FALSE),
          TmplPiece(<<"f", "n", " ", "n", "o", "i", "s", "e", "(", "p", ":", " ", "f",
      "3", "2", ")", " ", "-", ">", " ", "f", "3", "2", " ", "{",
      " ", "p", ";", " ", "}">>, <<>>, <<>>, FALSE, FALSE, TRUE)}
    ELSE IF i = 2
    THEN {TmplPiece(<<"f", "n", " ", "m", "a", "i", "n", "(", ")", " ", "{", " ", "m",
      ";", " ", "}">>, <<>>, <<>>, TRUE, FALSE, FALSE),
          TmplPiece(<<"@", "c", "o", "m", "p", "u", "t", "e", " ", "f", "n", " ", " ",
      "m", "a", "i", "n", " ", "(", ")", "{", " ">>, WidthWord, <<";", " ", "}">>, TRUE, FALSE, FALSE),
          TmplPiece(<<"f", "n", " ", "m", "a", "i", "n", "l", "y", "(", ")", " ", "{",
      " ", "m", ";", " ", "}">>, <<>>, <<>>, FALSE, FALSE, FALSE),
          TmplPiece(<<"x", " ", "=", " ">>, WidthWord, <<";">>, FALSE, FALSE, FALSE)}
    ELSE IF i = 3
    THEN {TmplPiece(<<"y", " ", "=", " ", "n", "o", "i", "s", "e", "2", "(">>, HeightWord, <<")", ";">>, FALSE, TRUE, FALSE),
          TmplPiece(<<"z", " ", "=", " ", "w", "i", "d", "t", "h", "s", " ", "+", " ",
      "n", "o", "i", "s", "e", ";">>, <<>>, <<>>, FALSE, FALSE, FALSE),
          TmplPiece(<<"u", " ", "=", " ", "n", "o", "i", "s", "e", "3", " ", "(", "v",
      ")", ";">>, <<>>, <<>>, FALSE, TRUE, FALSE),
          TmplPiece(<<"n", "o", "i", "s", "e", "(">>, WidthWord, <<")", ";", " ">>, FALSE, TRUE, FALSE)}
    ELSE {TmplPiece(<<"l", "e", "t", " ", Letters[i], " ", "=", " ">>, HeightWord,
                    <<";">>, FALSE, FALSE, FALSE)}

RECURSIVE TmplFrom(_)
\* the piece lists that take at most one piece of each of TmplAt(i), ...
TmplFrom(i) ==
    IF i > MaxTmpl THEN {<<>>}
    ELSE TmplFrom(i + 1) \cup {<<p>> \o r : p \in TmplAt(i), r \in TmplFrom(i + 1)}

Templates == TmplFrom(1)

TmplText(ps) == JoinLines([i \in 1..Len(ps) |-> ps[i].pre \o ps[i].word \o ps[i].post])

NoTmpl == [parts |-> <<>>, text |-> <<>>, again |-> FALSE]

\* `had` tells whether noiseBuffer was set when the call began
NoOut == [op |-> "", ok |-> FALSE, text |-> <<>>, had |-> FALSE]

\* the options handed to initCanvas: the width and height of the canvas in
\* CSS pixels
Options(w, h, mouse, time) ==
    [width |-> w, height |-> h, mouse |-> mouse, time |-> time, feedback |-> FALSE]

OptionSets == {Options(4, 3, FALSE, FALSE), Options(6, 5, FALSE, FALSE)}

DefaultOptions == Options(4, 3, FALSE, FALSE)

\* the options of init: with the mouse and time buffers, or without them
PassOptionSets == {Options(4, 3, TRUE, TRUE), Options(4, 3, FALSE, FALSE)}

(***************************************************************************)
(* The handles a pass binds (core.js, struct.js).  An entry of a binding   *)
(* list is a Buffer ("buffer"), a TextureBindingHelper ("view"), an array  *)
(* of handles ("list") or a null or undefined export ("undefined").  Names *)
(* are texts; `res` numbers the device resource behind the handle, and a   *)
(* read view and a write view of one texture have its one resource.        *)
(***************************************************************************)
NoStruct == [name |-> <<>>, fields |-> <<>>]

Entry(kind, name, struct, size, isArray, count, mode, res, items) ==
    [kind |-> kind, name |-> name, struct |-> struct, size |-> size,
     isArray |-> isArray, count |-> count, mode |-> mode, res |-> res, items |-> items]

\* new Buffer(name, data) of size bytes
PlainBuffer(name, size, res) == Entry("buffer", name, NoStruct, size, FALSE, 0, <<>>, res, <<>>)

\* struct.createBuffer(name, vals) of an array of fewer than 65000 records
StructBuffer(name, struct, res) ==
    Entry("buffer", name, struct, 16, TRUE, 0, <<>>, res, <<>>)

\* one of the buffers struct.createBuffer returns for a larger array
ChunkBuffer(name, struct, count, res) ==
    Entry("buffer", name, struct, 16, TRUE, count, <<>>, res, <<>>)

\* texture.read(), texture.write() of a texture of format rgba8unorm
View(name, mode, res) == Entry("view", name, NoStruct, 0, FALSE, 0, mode, res, <<>>)

ListOf(items) == Entry("list", <<>>, NoStruct, 0, FALSE, 0, <<>>, 0, items)

Undefined == Entry("undefined", <<>>, NoStruct, 0, FALSE, 0, <<>>, 0, <<>>)

TypeCode(t) ==
    IF t = "f32" THEN <<"f", "3", "2">>
    ELSE IF t = "vec2" THEN <<"v", "e", "c", "2", "<", "f", "3", "2", ">">>
    ELSE IF t = "vec3" THEN <<"v", "e", "c", "3", "<", "f", "3", "2", ">">>
    ELSE <<"v", "e", "c", "4", "<", "f", "3", "2", ">">>

RECURSIVE FieldsCode(_, _)
\* the lines of the fields from the k-th on, each followed by ',\n'
FieldsCode(fields, k) ==
    IF k > Len(fields) THEN <<>>
    ELSE fields[k].name \o <<":", " ">> \o TypeCode(fields[k].type) \o <<",", "\n">>
         \o FieldsCode(fields, k + 1)

DropLast2(t) == SubSeq(t, 1, Len(t) - 2)

\* Struct.code
StructCode(s) ==
    DropLast2(<<"s", "t", "r", "u", "c", "t", " ">> \o s.name \o <<" ", "{", "\n">> \o FieldsCode(s.fields, 1)) \o <<"\n", "}", ";">>

\* the struct of createMouseBuffer, with the filler its constructor adds
mouseStruct ==
    [name |-> <<"m", "o", "u", "s", "e", "S", "t", "r", "u", "c", "t">>,
     fields |-> <<[name |-> <<"p", "o", "s">>, type |-> "vec2"],
                  [name |-> <<"b", "u", "t", "t", "o", "n">>, type |-> "f32"],
                  [name |-> <<"F", "I", "L", "L", "E", "R", "_", "_", "_", "0">>, type |-> "f32"]>>]

MouseName == <<"m", "o", "u", "s", "e">>
TimeName == <<"t", "i", "m", "e">>
RenderName == <<"r", "e", "n", "d", "e", "r", "T", "x", "t", "r">>
FeedbackName == <<"f", "e", "e", "d", "b", "a", "c", "k", "T", "x", "t", "r">>
NoiseOffsetName == <<"n", "o", "i", "s", "e", "O", "f", "f", "s", "e", "t">>

mouseBuffer == Entry("buffer", MouseName, mouseStruct, 16, FALSE, 0, <<>>, 1, <<>>)

timeBuffer == PlainBuffer(TimeName, 4, 2)

\* noiseBuffer, when it is set
NoiseHandle == PlainBuffer(NoiseOffsetName, 12, 5)

BufferType(e) ==
    IF e.struct # NoStruct THEN e.struct.name
    ELSE IF e.size = 8 THEN <<"v", "e", "c", "2", "f">>
    ELSE IF e.size = 12 THEN <<"v", "e", "c", "3", "f">>
    ELSE IF e.size = 16 THEN <<"v", "e", "c", "4", "f">>
    ELSE <<"f", "3", "2">>

BindingHead(index) == <<"@", "g", "r", "o", "u", "p", "(", "0", ")", " ", "@", "b", "i",
      "n", "d", "i", "n", "g", "(">> \o Decimal(index) \o <<")", " ", "v", "a", "r">>

\* Buffer.getBindingCode(index)
BufferBindingCode(e, index) ==
    BindingHead(index) \o <<"<", "s", "t", "o", "r", "a", "g", "e", ",", " ", "r", "e", "a",
      "d", "_", "w", "r", "i", "t", "e", ">", " ">> \o e.name \o <<":", " ">>
    \o (IF e.isArray THEN <<"a", "r", "r", "a", "y", "<">> \o BufferType(e) \o <<">">> ELSE BufferType(e))
    \o <<";">>

\* TextureBindingHelper.getBindingCode(bindingIndex)
ViewBindingCode(e, index) ==
    IF e.mode = <<"r", "e", "a", "d">>
    THEN BindingHead(index) \o <<" ">> \o e.name \o <<":", " ", "t", "e", "x", "t", "u", "r", "e", "_", "2", "d", "<",
      "f", "3", "2", ">", ";">>
    ELSE BindingHead(index) \o <<" ">> \o e.name \o <<":", " ", "t", "e", "x", "t", "u", "r", "e", "_", "s", "t", "o",
      "r", "a", "g", "e", "_", "2", "d", "<", "r", "g", "b", "a",
      "8", "u", "n", "o", "r", "m", ",", " ">>
         \o e.mode \o <<">", ";">>

\* a getBindingCode that numbers the bindings from 1
getBindingCodeFromOne(e, index) ==
    IF e.kind = "view" THEN ViewBindingCode(e, index + 1)
    ELSE BufferBindingCode(e, index + 1)

getBindingCode(e, index) ==
    IF e.kind = "view" THEN ViewBindingCode(e, index) ELSE BufferBindingCode(e, index)

(***************************************************************************)
(* ComputePass (passes.js).  `known` tells which of the exports            *)
(* mouseBuffer, timeBuffer, renderTxtr and feedbackTxtr are set.  The      *)
(* constructor returns a pass or, when it fans out, an array: its value is *)
(* [kind |-> "pass", ...] or [kind |-> "array", items |-> ...].  A         *)
(* TypeError raised on the way makes the construction throw.               *)
(***************************************************************************)
\* /\bmouse(\.(pos|button))?\b/ matches exactly where /\bmouse\b/ does: when
\* the group matches and the boundary after it fails, the group is given up
\* and the boundary is tried right after `mouse`
Auto_Bindings ==
    <<[binding |-> "mouse", regex |-> WordPattern(MouseName), function |-> <<>>],
      [binding |-> "time", regex |-> WordPattern(TimeName), function |-> <<>>],
      [binding |-> "renderTxtr", regex |-> WordPattern(RenderName),
       function |-> <<"w", "r", "i", "t", "e">>],
      [binding |-> "feedbackTxtr", regex |-> WordPattern(FeedbackName),
       function |-> <<"r", "e", "a", "d">>]>>

\* the value of an export of the table
Exported(key, kn) ==
    IF ~kn[key] THEN Undefined
    ELSE IF key = "mouse" THEN mouseBuffer
    ELSE IF key = "time" THEN timeBuffer
    ELSE IF key = "renderTxtr" THEN View(RenderName, <<>>, 3)
    ELSE View(FeedbackName, <<>>, 4)

\* auto.function ? auto.binding[auto.function]() : auto.binding
NewBinding(auto, x) == IF auto.function # <<>> THEN [x EXCEPT !.mode = auto.function] ELSE x

AutoThrew(b) == [ok |-> FALSE, b |-> b]

\* bindings.some(b => b.name === auto.binding.name), which reads the name of
\* the export for the entries up to the first one of that name
SomeNamed(b, x) == \E i \in 1..Len(b) : b[i].name = x.name

\* the body of the forEach without its test for an entry of the same name
AutoStepAlways(src, b, auto, x) ==
    IF ~Test(src, auto.regex) THEN [ok |-> TRUE, b |-> b]
    ELSE IF \E i \in 1..Len(b) : b[i].kind = "undefined" THEN AutoThrew(b)
    ELSE IF x.kind = "undefined" /\ (b # <<>> \/ auto.function # <<>>) THEN AutoThrew(b)
    ELSE [ok |-> TRUE, b |-> Append(b, NewBinding(auto, x))]

\* the body of the forEach over Auto_Bindings, x being the export
AutoStep(src, b, auto, x) ==
    IF ~Test(src, auto.regex) THEN [ok |-> TRUE, b |-> b]
    ELSE IF \E i \in 1..Len(b) : b[i].kind = "undefined" THEN AutoThrew(b)
    ELSE IF x.kind = "undefined" /\ (b # <<>> \/ auto.function # <<>>) THEN AutoThrew(b)
    ELSE IF SomeNamed(b, x) THEN [ok |-> TRUE, b |-> b]
    ELSE [ok |-> TRUE, b |-> Append(b, NewBinding(auto, x))]

RECURSIVE AutoLoop(_, _, _, _)
AutoLoop(src, a, k, kn) ==
    IF k > Len(Auto_Bindings) \/ ~a.ok THEN a
    ELSE AutoLoop(src,
                  AutoStep(src, a.b, Auto_Bindings[k],
                           Exported(Auto_Bindings[k].binding, kn)),
                  k + 1, kn)

\* lines 75-77
NoiseStep(src, b, nb) == IF UsesNoise(src) /\ nb # 0 THEN Append(b, NoiseHandle) ELSE b

RECURSIVE BindingsCode(_, _)
\* bindingsCode, from the k-th entry on
BindingsCode(b, k) ==
    IF k > Len(b) THEN <<>>
    ELSE getBindingCode(b[k], k - 1) \o <<"\n">> \o BindingsCode(b, k + 1)

RECURSIVE PrependStructs(_, _, _)
\* lines 96-98, from the k-th entry on
PrependStructs(b, k, src) ==
    IF k > Len(b) THEN src
    ELSE PrependStructs(b, k + 1,
                        IF b[k].struct # NoStruct
                        THEN StructCode(b[k].struct) \o <<"\n">> \o src
                        ELSE src)

\* the dispatchSize argument: a number n is [isArray |-> FALSE, vals |-> <<n>>]
Number(n) == [isArray |-> FALSE, vals |-> <<n>>]

PassValue(src, b, ds) ==
    [kind |-> "pass", items |-> <<>>, code |-> src, bindings |-> b,
     entries |-> [i \in 1..Len(b) |-> [binding |-> i - 1, resource |-> b[i].res]],
     dispatchSize |-> ds.vals]

ArrayValue(items) ==
    [kind |-> "array", items |-> items, code |-> <<>>, bindings |-> <<>>,
     entries |-> <<>>, dispatchSize |-> <<>>]

NoValue == ArrayValue(<<>>)

Threw(b) == [ok |-> FALSE, value |-> NoValue, bindings |-> b]

\* lines 90-113: getBindingCode of an undefined entry and createShaderModule
\* of an undefined device raise a TypeError
Assemble(src, b, ds, dev) ==
    IF (\E i \in 1..Len(b) : b[i].kind = "undefined") \/ ~dev THEN Threw(b)
    ELSE [ok |-> TRUE,
          value |-> PassValue(PrependStructs(b, 1, BindingsCode(b, 1) \o src), b, ds),
          bindings |-> b]

\* the index of the first array of the list
FirstList(b) == CHOOSE i \in 1..Len(b) : b[i].kind = "list" /\ \A j \in 1..(i - 1) : b[j].kind # "list"

Collect(subs, b) ==
    IF \E j \in 1..Len(subs) : ~subs[j].ok THEN Threw(b)
    ELSE [ok |-> TRUE, value |-> ArrayValue([j \in 1..Len(subs) |-> subs[j].value]),
          bindings |-> b]

RECURSIVE Construct(_, _, _, _, _, _)

\* lines 80-88, a fan-out that hands the caller's dispatchSize on
FanOutSameSize(src, b, idx, ds, dev, kn, nb) ==
    Collect([j \in 1..Len(b[idx].items) |->
                Construct(src, [b EXCEPT ![idx] = b[idx].items[j]], ds, dev, kn, nb)],
            b)

\* lines 80-88
FanOut(src, b, idx, ds, dev, kn, nb) ==
    Collect([j \in 1..Len(b[idx].items) |->
                Construct(src, [b EXCEPT ![idx] = b[idx].items[j]],
                          Number(b[idx].items[j].count), dev, kn, nb)],
            b)

AfterNoise(src, b, ds, dev, kn, nb) ==
    IF \E i \in 1..Len(b) : b[i].kind = "list"
    THEN FanOut(src, b, FirstList(b), ds, dev, kn, nb)
    ELSE Assemble(src, b, ds, dev)

AfterAuto(src, a, ds, dev, kn, nb) ==
    IF ~a.ok THEN Threw(a.b)
    ELSE AfterNoise(src, NoiseStep(src, a.b, nb), ds, dev, kn, nb)

\* new ComputePass(code, bindings, dispatchSize)
Construct(src, b, ds, dev, kn, nb) ==
    AfterAuto(src, AutoLoop(src, [ok |-> TRUE, b |-> b], 1, kn), ds, dev, kn, nb)

(***************************************************************************)
(* The inputs of a pass: a loose body of up to three lines handed to wgsl, *)
(* and an explicit binding list of up to MaxExplicit entries.  `uses` is   *)
(* the set of the well-known identifiers the line has as whole words.      *)
(***************************************************************************)
MaxExplicit == 2    \* most entries of an explicit binding list
MaxFan == 2         \* chunk handles of the fanned-out entry

PassPiece(text, calling, uses) ==
    [pre |-> text, word |-> <<>>, post |-> <<>>, main |-> FALSE, calls |-> calling,
     defines |-> FALSE, uses |-> uses]

PassTmplAt(i) ==
    IF i = 1
    THEN {PassPiece(<<"l", "e", "t", " ", "a", " ", "=", " ", "m", "o", "u", "s", "e",
      ".", "p", "o", "s", " ", "+", " ", "m", "o", "u", "s", "e",
      ".", "b", "u", "t", "t", "o", "n", ";">>, FALSE, {"mouse"}),
          PassPiece(<<"g", "(", "t", "i", "m", "e", ",", " ", "m", "o", "u", "s", "e",
      ")", ";">>, FALSE, {"mouse", "time"}),
          PassPiece(<<"l", "e", "t", " ", "t", " ", "=", " ", "t", "i", "m", "e", ";">>, FALSE, {"time"}),
          PassPiece(<<"l", "e", "t", " ", "x", " ", "=", " ", "t", "i", "m", "e", "r",
      " ", "+", " ", "m", "o", "u", "s", "e", "_", "x", ";">>, FALSE, {})}
    ELSE IF i = 2
    THEN {PassPiece(<<"t", "e", "x", "t", "u", "r", "e", "S", "t", "o", "r", "e", "(",
      "r", "e", "n", "d", "e", "r", "T", "x", "t", "r", ",", " ",
      "p", "o", "s", ",", " ", "c", "o", "l", "o", "r", ")", ";">>, FALSE, {"renderTxtr"}),
          PassPiece(<<"f", "(", "f", "e", "e", "d", "b", "a", "c", "k", "T", "x", "t",
      "r", ",", " ", "r", "e", "n", "d", "e", "r", "T", "x", "t",
      "r", ")", ";">>, FALSE,
                    {"renderTxtr", "feedbackTxtr"})}
    ELSE {PassPiece(<<"n", " ", "=", " ", "n", "o", "i", "s", "e", "2", "(", "q", ")", ";">>, TRUE, {})}

RECURSIVE PassTmplFrom(_)
PassTmplFrom(i) ==
    IF i > 3 THEN {<<>>}
    ELSE PassTmplFrom(i + 1)
         \cup {<<p>> \o r : p \in PassTmplAt(i), r \in PassTmplFrom(i + 1)}

PassTemplates == PassTmplFrom(1)

\* a struct of the application
UserStruct == [name |-> <<"P">>, fields |-> <<[name |-> <<"v">>, type |-> "vec4"]>>]

\* the records of the j-th chunk of k: all but the last are full
ChunkCount(j, k) == IF j < k THEN Ceiling ELSE j

ChunkList(k) == ListOf([j \in 1..k |-> ChunkBuffer(<<"c">>, UserStruct, ChunkCount(j, k), 10 + j)])

\* what the application can put into a binding list: two buffers made from
\* one struct, a read view of renderTxtr, and the chunk list of a large array
ExplicitEntries ==
    {StructBuffer(<<"p">>, UserStruct, 7),
     StructBuffer(<<"q">>, UserStruct, 8),
     View(RenderName, <<"r", "e", "a", "d">>, 3),
     ChunkList(MaxFan)}

\* a second chunk list, and the binding lists that hold both
OtherChunkList(k) ==
    ListOf([j \in 1..k |-> ChunkBuffer(<<"d">>, UserStruct, ChunkCount(j, k), 20 + j)])

TwoListArgs ==
    {<<ChunkList(MaxFan), OtherChunkList(MaxFan)>>,
     <<OtherChunkList(MaxFan), ChunkList(MaxFan)>>,
     <<ChunkList(MaxFan), StructBuffer(<<"p">>, UserStruct, 7), OtherChunkList(MaxFan)>>}

ExplicitLists ==
    {b \in SeqsUpTo(ExplicitEntries, MaxExplicit) :
        \A i, j \in 1..Len(b) : i # j => b[i] # b[j]}

NoKnown == [mouse |-> FALSE, time |-> FALSE, renderTxtr |-> FALSE, feedbackTxtr |-> FALSE,
            clearPass |-> FALSE, renderPass |-> FALSE, matchPass |-> FALSE]

NoPass == [made |-> FALSE, code |-> <<>>, ds |-> Number(0), ok |-> FALSE,
           value |-> NoValue, bindings |-> <<>>]

(***************************************************************************)
(* Actions                                                                 *)
(***************************************************************************)
initCanvas ==
    /\ ~device
    /\ device' = TRUE
    /\ width' = 2 * options.width
    /\ height' = 2 * options.height
    /\ UNCHANGED <<runVars, structVars, bufVars, scanVars, options, tmpl, out, wcalls,
                   noiseBuffer, noiseMade, passVars, ini>>

runPasses ==
    /\ calls < MaxCalls
    /\ LET r == RunPassesResult(passes, repeats, device, encoders + 1)
       IN  /\ trace' = r.trace
           /\ queue' = r.queue
           /\ rpError' = r.error
           /\ encoders' = encoders + r.made
    /\ calls' = calls + 1
    /\ UNCHANGED <<device, passes, repeats, structVars, bufVars, scanVars, wgslVars, passVars, ini>>

RunIdle ==
    /\ calls = 0 /\ encoders = 0 /\ trace = <<>> /\ queue = <<>> /\ rpError = ""


\* object, toFloat32Array, fromFloat32Array and createBuffer leave the struct
\* as it is, so a call made after another of them returns what it returns
\* when made first: the model makes each of them on a struct whose latest
\* call declared it (the constructor or add), which reaches the same states.
Declared == sOp \in {"new", "add"}

\* an add that pads the list again after pushing the field
addPadded ==
    /\ Cardinality(UserIndexes(origin)) < MaxFields
    /\ \E t \in Types :
          \E d \in {StructNew(Append(data, Field(UserNames[Cardinality(UserIndexes(origin)) + 1], t)))} :
             /\ data' = d
             /\ origin' = [i \in 1..Len(d) |->
                              IF i <= Len(origin) THEN origin[i]
                              ELSE IF i = Len(origin) + 1 THEN "added" ELSE "filler"]
             /\ sOp' = "add"
             /\ sArg' = t
             /\ sRes' = [ok |-> TRUE]
    /\ UNCHANGED <<device, runVars, bufVars, scanVars, wgslVars, passVars, ini>>

\* struct.add(name, type)
add ==
    /\ Cardinality(UserIndexes(origin)) < MaxFields
    /\ \E t \in Types :
          /\ data' = Append(data, Field(UserNames[Cardinality(UserIndexes(origin)) + 1], t))
          /\ origin' = Append(origin, "added")
          /\ sOp' = "add"
          /\ sArg' = t
          /\ sRes' = [ok |-> TRUE]
    /\ UNCHANGED <<device, runVars, bufVars, scanVars, wgslVars, passVars, ini>>

\* the names an application may give its fields: any non-empty string, among
\* them the names the constructor gives its fillers
FieldNameChoices == {"a", "b", FillerName(0), FillerName(1)}

\* struct.add(name, type) with a name of the application's choice
addNamed ==
    /\ Cardinality(UserIndexes(origin)) < MaxFields
    /\ \E n \in FieldNameChoices, t \in Types :
          /\ data' = Append(data, Field(n, t))
          /\ origin' = Append(origin, "added")
          /\ sOp' = "add"
          /\ sArg' = t
          /\ sRes' = [ok |-> TRUE]
    /\ UNCHANGED <<device, runVars, bufVars, scanVars, wgslVars, passVars, ini>>

\* struct.object()
object ==
    /\ Declared
    /\ sOp' = "object"
    /\ sArg' = <<>>
    /\ sRes' = [ok |-> TRUE, val |-> StructObject(data)]
    /\ UNCHANGED <<device, runVars, data, origin, bufVars, scanVars, wgslVars, passVars, ini>>

\* struct.toFloat32Array(vals): null, one record, or an array of records
toFloat32ArrayCall ==
    /\ Declared
    /\ \E kind \in {"null", "object", "array"}, variant \in Variants, n \in 0..MaxRecs :
          /\ kind = "null" => (variant = "user" /\ n = 0)
          /\ kind = "object" => n = 1
          /\ sOp' = "toFloat32Array"
          /\ sArg' = [kind |-> kind, variant |-> variant, n |-> n]
          /\ sRes' = IF kind = "null"
                     THEN [ok |-> FALSE, arr |-> <<>>, offset |-> 0,
                           error |-> "Struct.toFloat32Array: Input values are required"]
                     ELSE toFloat32Array(data, RecordsFor(data, origin, variant, n))
    /\ UNCHANGED <<device, runVars, data, origin, bufVars, scanVars, wgslVars, passVars, ini>>

\* struct.fromFloat32Array(arr), arr being what toFloat32Array gave for n
\* records of a variant, whole or with its last float cut off.  (With no
\* fields and a non-empty arr the loop of fromFloat32Array never ends; a
\* struct without fields packs to an empty arr, so that call is not made.)
fromFloat32ArrayCall ==
    /\ Declared
    /\ \E variant \in Variants, n \in 0..MaxRecs, cut \in {0, 1} :
          LET p == toFloat32Array(data, RecordsFor(data, origin, variant, n))
              arr == SubSeq(p.arr, 1, Len(p.arr) - cut)
          IN  /\ p.ok
              /\ cut <= Len(p.arr)
              /\ sOp' = "fromFloat32Array"
              /\ sArg' = [variant |-> variant, n |-> n, cut |-> cut, arr |-> arr]
              /\ sRes' = fromFloat32Array(data, arr)
    /\ UNCHANGED <<device, runVars, data, origin, bufVars, scanVars, wgslVars, passVars, ini>>

\* struct.createBuffer(name, vals)
createBuffer ==
    /\ Declared
    /\ \E kind \in {"null", "object", "array"}, variant \in Variants, n \in BufferCounts :
          /\ kind = "null" => (variant = "user" /\ n = 0)
          /\ kind = "object" => n = 1
          /\ sOp' = "createBuffer"
          /\ sArg' = [kind |-> kind, variant |-> variant, n |-> n, dev |-> device]
          /\ sRes' = CreateBufferResult(data, origin, device, "buf", kind, variant, n)
    /\ UNCHANGED <<device, runVars, data, origin, bufVars, scanVars, wgslVars, passVars, ini>>

StructIdle ==
    /\ data = <<>> /\ origin = <<>> /\ sOp = "" /\ sArg = <<>> /\ sRes = <<>>


\* new Buffer(name, data)
newBuffer ==
    /\ ~buffer.made
    /\ \E kind \in ArrayLike \cup {"other"}, n \in 0..MaxFloats :
          LET arg == Arg(kind, IF kind \in ArrayLike THEN Floats(0, n) ELSE <<>>)
              r == BufferCtor(device, "buf", arg)
          IN  /\ kind \notin ArrayLike => n = 0
              /\ buffer' = r.buf
              /\ upd' = Call("new", arg, r.error, "none", <<>>)
    /\ UNCHANGED <<device, runVars, structVars, scanVars, wgslVars, passVars, ini>>

\* createMouseBuffer(), up to the registration of its handler
createMouseBuffer ==
    /\ ~buffer.made
    /\ LET arg == Arg("Float32Array", MouseData)
           r == IF ~device
                THEN [buf |-> NoBuf, error |-> "createMouseBuffer: Canvas is not defined"]
                ELSE BufferCtor(device, "mouse", arg)
       IN  /\ buffer' = r.buf
           /\ upd' = Call("createMouseBuffer", arg, r.error, "none", <<>>)
           /\ known' = [known EXCEPT !.mouse = @ \/ r.error = ""]
    /\ UNCHANGED <<device, runVars, structVars, scanVars, wgslVars, cpArg, cp, ini>>

\* createTimeBuffer(), up to the start of its timer
createTimeBuffer ==
    /\ ~buffer.made
    /\ LET arg == Arg("Float32Array", <<0>>)
           r == BufferCtor(device, "time", arg)
       IN  /\ buffer' = r.buf
           /\ upd' = Call("createTimeBuffer", arg, r.error, "none", <<>>)
           /\ known' = [known EXCEPT !.time = @ \/ r.error = ""]
    /\ UNCHANGED <<device, runVars, structVars, scanVars, wgslVars, cpArg, cp, ini>>

\* buffer.update(data), from the caller
update ==
    /\ buffer.made
    /\ \E kind \in ArrayLike \cup {"null", "other"}, v \in 1..MaxTags,
          n \in 0..(MaxFloats + 1), raises \in BOOLEAN :
          LET arg == Arg(kind, IF kind \in ArrayLike THEN Floats(v, n) ELSE <<>>)
              r == Update(buffer, arg, raises)
          IN  /\ kind \notin ArrayLike => (v = 1 /\ n = 0 /\ ~raises)
              /\ buffer' = r.buf
              /\ upd' = Call("update", arg, r.error, r.wrote, buffer.data)
    /\ UNCHANGED <<device, runVars, structVars, scanVars, wgslVars, passVars, ini>>

\* the mousemove / mousedown / mouseup handler of createMouseBuffer
mouseEvent ==
    /\ buffer.made /\ buffer.name = "mouse"
    /\ \E v \in 1..MaxTags, buttons \in {0, 1} :
          LET arg == Arg("Float32Array", MouseFloats(v, buttons))
              r == Update(buffer, arg, FALSE)
          IN  /\ buffer' = r.buf
              /\ upd' = Call("update", arg, r.error, r.wrote, buffer.data)
    /\ UNCHANGED <<device, runVars, structVars, scanVars, wgslVars, passVars, ini>>

\* the interval handler of createTimeBuffer
timerTick ==
    /\ buffer.made /\ buffer.name = "time"
    /\ \E v \in 1..MaxTags :
          LET arg == Arg("Float32Array", <<v>>)
              r == Update(buffer, arg, FALSE)
          IN  /\ buffer' = r.buf
              /\ upd' = Call("update", arg, r.error, r.wrote, buffer.data)
    /\ UNCHANGED <<device, runVars, structVars, scanVars, wgslVars, passVars, ini>>

BufIdle == buffer = NoBuf /\ upd = NoCall


\* one iteration of while (this.position < this.code.length) in parse()
parseIteration ==
    /\ pc = "parse"
    /\ position < Len(code)
    /\ \E ps \in {ParseIteration(code, [NewParser EXCEPT !.position = position,
                                                         !.functions = functions,
                                                         !.body = body])} :
          /\ position' = ps.position
          /\ functions' = ps.functions
          /\ body' = ps.body
          /\ pc' = IF ps.broke THEN "return" ELSE "parse"
    /\ UNCHANGED <<device, runVars, structVars, bufVars, pieces, code, result, rescanned, wgslVars, passVars, ini>>

\* the return of parse(), which extractFunctionsAndBody hands on
parseReturn ==
    /\ \/ pc = "return"
       \/ pc = "parse" /\ ~(position < Len(code))
    /\ result' = [functions |-> functions, body |-> JoinLines(body)]
    /\ pc' = "done"
    /\ UNCHANGED <<device, runVars, structVars, bufVars, pieces, code, position,
                   functions, body, rescanned, wgslVars, passVars, ini>>

\* extractFunctionsAndBody(F) on a function string F the scan has emitted
rescan ==
    /\ pc = "done"
    /\ rescanned = <<>>
    /\ \E k \in 1..Len(result.functions) :
          /\ rescanned' = result.functions[k]
          /\ code' = result.functions[k]
    /\ position' = NewParser.position
    /\ functions' = NewParser.functions
    /\ body' = NewParser.body
    /\ pc' = "parse"
    /\ UNCHANGED <<device, runVars, structVars, bufVars, pieces, result, wgslVars, passVars, ini>>

ScanIdle ==
    /\ pieces = <<>> /\ code = <<>> /\ position = 0 /\ functions = <<>> /\ body = <<>>
    /\ pc = "" /\ result = <<>> /\ rescanned = <<>>


\* wgsl`T` on the template T
wgsl ==
    /\ wcalls < MaxWgslCalls
    /\ \E r \in {Wgsl(TmplText(tmpl.parts), width, height, device, noiseBuffer, noiseMade)} :
          /\ out' = [op |-> "wgsl", ok |-> r.ok, text |-> r.text, had |-> noiseBuffer # 0]
          /\ noiseBuffer' = r.noiseBuffer
          /\ noiseMade' = r.made
    /\ tmpl' = [tmpl EXCEPT !.text = TmplText(tmpl.parts), !.again = FALSE]
    /\ wcalls' = wcalls + 1
    /\ UNCHANGED <<device, runVars, structVars, bufVars, scanVars, options, width, height, passVars, ini>>

\* wgsl on the text the latest wgsl call returned
wgslAgain ==
    /\ wcalls < MaxWgslCalls
    /\ out.op = "wgsl" /\ out.ok
    /\ \E r \in {Wgsl(out.text, width, height, device, noiseBuffer, noiseMade)} :
          /\ out' = [op |-> "wgsl", ok |-> r.ok, text |-> r.text, had |-> noiseBuffer # 0]
          /\ noiseBuffer' = r.noiseBuffer
          /\ noiseMade' = r.made
    /\ tmpl' = [tmpl EXCEPT !.text = out.text, !.again = TRUE]
    /\ wcalls' = wcalls + 1
    /\ UNCHANGED <<device, runVars, structVars, bufVars, scanVars, options, width, height, passVars, ini>>

\* a call of getNoiseCode() by the application
getNoiseCode ==
    /\ wcalls < MaxWgslCalls
    /\ \E g \in {GetNoiseCode(device, noiseBuffer, noiseMade)} :
          /\ out' = [op |-> "getNoiseCode", ok |-> g.ok, text |-> g.code,
                  had |-> noiseBuffer # 0]
          /\ noiseBuffer' = g.noiseBuffer
          /\ noiseMade' = g.made
    /\ wcalls' = wcalls + 1
    /\ UNCHANGED <<device, runVars, structVars, bufVars, scanVars, options, width, height,
                   tmpl, passVars, ini>>

WgslIdle ==
    /\ options = DefaultOptions
    /\ width = (IF device THEN 2 * options.width ELSE 0)
    /\ height = (IF device THEN 2 * options.height ELSE 0)
    /\ tmpl = NoTmpl /\ out = NoOut /\ wcalls = 0
    /\ noiseBuffer = 0 /\ noiseMade = 0

\* init(options): initCanvas, the mouse and time buffers the options ask
\* for, and the textures of createRenderPass
init ==
    /\ ~device
    /\ device' = TRUE
    /\ width' = 2 * options.width
    /\ height' = 2 * options.height
    /\ known' = [mouse |-> options.mouse, time |-> options.time,
                 renderTxtr |-> TRUE, feedbackTxtr |-> TRUE,
                 clearPass |-> TRUE, renderPass |-> TRUE, matchPass |-> options.feedback]
    /\ UNCHANGED <<runVars, structVars, bufVars, scanVars, options, tmpl, out, wcalls,
                   noiseBuffer, noiseMade, cpArg, cp, ini>>

\* the dispatchSize the application gives: ComputePass.texture gives
\* [width, height] for a body that writes renderTxtr, and a number otherwise
DispatchFor(ps) ==
    IF \E i \in 1..Len(ps) : "renderTxtr" \in ps[i].uses
    THEN [isArray |-> TRUE, vals |-> <<width, height>>]
    ELSE Number(7)

\* new ComputePass(code, bindings, dispatchSize) on the text wgsl returned;
\* the handles of the list exist once the device does
newComputePass ==
    /\ ~cp.made
    /\ out.op = "wgsl" /\ out.ok
    /\ \E b \in ExplicitLists :
          /\ b = <<>> \/ device
          /\ \A i \in 1..Len(b) : b[i].kind = "view" => known.renderTxtr
          /\ cpArg' = b
          /\ \E r \in {Construct(out.text, b, DispatchFor(tmpl.parts), device, known,
                                  noiseBuffer)} :
                cp' = [made |-> TRUE, code |-> out.text, ds |-> DispatchFor(tmpl.parts),
                       ok |-> r.ok, value |-> r.value, bindings |-> r.bindings]
    /\ UNCHANGED <<device, runVars, structVars, bufVars, scanVars, wgslVars, known, ini>>

\* new ComputePass(code, bindings, dispatchSize) with two arrays of handles
\* in the binding list
newComputePassLists ==
    /\ ~cp.made
    /\ out.op = "wgsl" /\ out.ok
    /\ device
    /\ \E b \in TwoListArgs :
          /\ cpArg' = b
          /\ \E r \in {Construct(out.text, b, DispatchFor(tmpl.parts), device, known,
                                  noiseBuffer)} :
                cp' = [made |-> TRUE, code |-> out.text, ds |-> DispatchFor(tmpl.parts),
                       ok |-> r.ok, value |-> r.value, bindings |-> r.bindings]
    /\ UNCHANGED <<device, runVars, structVars, bufVars, scanVars, wgslVars, known, ini>>

PassIdle == known = NoKnown /\ cpArg = <<>> /\ cp = NoPass

(***************************************************************************)
(* init(options) and the pass factories it calls (render_passes.js).  init *)
(* is an async function: it runs up to its first await when called, the    *)
(* rest of it runs once initCanvas has settled, and the rest of            *)
(* createRenderPass, which init calls without awaiting, runs as a          *)
(* microtask.  Microtasks run first come, first served.  Which device      *)
(* calls throw is an input: `faults` names the steps that do.              *)
(***************************************************************************)
MaxFaults == 1      \* most steps of one init call that throw

FaultSteps == {"initCanvas", "renderTxtr", "feedbackTxtr", "pass1", "clearPass",
               "renderPass", "matchPass"}

FaultSets == {F \in SUBSET FaultSteps : Cardinality(F) <= MaxFaults}

NoSeen == [state |-> "none", known |-> NoKnown]

NoInit == [pc |-> "idle", faults |-> {}, promise |-> "none", textures |-> "none",
           jobs |-> <<>>, unhandled |-> {}, seen |-> NoSeen]

InitIdle == ini = NoInit

\* a promise nobody awaits was rejected
Unhandled(st, name) == [st EXCEPT !.ini.unhandled = @ \cup {name}]

\* createTextures(): the two textures are assigned one after the other, then
\* the clearing pass is built and run; whatever throws rejects the promise
createTextures(st) ==
    IF "renderTxtr" \in st.ini.faults
    THEN [st EXCEPT !.ini.textures = "rejected"]
    ELSE IF "feedbackTxtr" \in st.ini.faults
    THEN [st EXCEPT !.known.renderTxtr = TRUE, !.ini.textures = "rejected"]
    ELSE [st EXCEPT !.known.renderTxtr = TRUE, !.known.feedbackTxtr = TRUE,
                    !.ini.textures = IF "pass1" \in st.ini.faults THEN "rejected"
                                     ELSE "fulfilled"]

\* createRenderPass() up to `await createTextures()`: the promise it awaits
\* is settled already, so its continuation is queued at once
createRenderPassCall(st) ==
    [createTextures(st) EXCEPT !.ini.jobs = Append(@, "createRenderPass")]

\* createClearPass(), whose promise createRenderPass drops
createClearPass(st) ==
    IF ~st.known.renderTxtr \/ ~st.known.feedbackTxtr \/ "clearPass" \in st.ini.faults
    THEN Unhandled(st, "createClearPass")
    ELSE [st EXCEPT !.known.clearPass = TRUE]

\* createRenderPass() after its await
createRenderPassRest(st) ==
    IF st.ini.textures = "rejected" THEN Unhandled(st, "createRenderPass")
    ELSE IF "renderPass" \in st.ini.faults
    THEN Unhandled(createClearPass(st), "createRenderPass")
    ELSE [createClearPass(st) EXCEPT !.known.renderPass = TRUE]

\* createMatchPass(), whose promise init drops
createMatchPass(st) ==
    IF ~st.known.renderTxtr \/ ~st.known.feedbackTxtr \/ "matchPass" \in st.ini.faults
    THEN Unhandled(st, "createMatchPass")
    ELSE [st EXCEPT !.known.matchPass = TRUE]

\* init settles its promise; the caller awaiting it is queued
Settle(st, how) ==
    [st EXCEPT !.ini.promise = how, !.ini.pc = "done", !.ini.jobs = Append(@, "caller")]

\* init after `await initCanvas(options)`: the buffers the options ask for,
\* createRenderPass, createMatchPass, and the return
InitRest(st, opts) ==
    IF "initCanvas" \in st.ini.faults THEN Settle(st, "rejected")
    ELSE Settle((IF opts.feedback THEN createMatchPass(
                                          createRenderPassCall(
                                             [st EXCEPT !.known.mouse = opts.mouse,
                                                        !.known.time = opts.time]))
                 ELSE createRenderPassCall([st EXCEPT !.known.mouse = opts.mouse,
                                                      !.known.time = opts.time])),
                "fulfilled")

\* the application calls init(options) and awaits the promise
initCall ==
    /\ ini.pc = "idle"
    /\ ~device
    /\ ini' = [ini EXCEPT !.pc = "initCanvas", !.promise = "pending"]
    /\ UNCHANGED <<device, runVars, structVars, bufVars, scanVars, wgslVars, passVars>>

\* initCanvas settles and init runs to its end
initBody ==
    /\ ini.pc = "initCanvas"
    /\ \E st \in {InitRest([ini |-> ini, known |-> known], options)} :
          /\ ini' = st.ini
          /\ known' = st.known
          /\ device' = (st.ini.promise = "fulfilled")
          /\ width' = (IF st.ini.promise = "fulfilled" THEN 2 * options.width ELSE 0)
          /\ height' = (IF st.ini.promise = "fulfilled" THEN 2 * options.height ELSE 0)
    /\ UNCHANGED <<runVars, structVars, bufVars, scanVars, options, tmpl, out, wcalls,
                   noiseBuffer, noiseMade, cpArg, cp>>

\* the microtask that resumes createRenderPass
createRenderPassResume ==
    /\ ini.jobs # <<>>
    /\ Head(ini.jobs) = "createRenderPass"
    /\ \E st \in {createRenderPassRest([ini |-> [ini EXCEPT !.jobs = Tail(@)],
                                        known |-> known])} :
          /\ ini' = st.ini
          /\ known' = st.known
    /\ UNCHANGED <<device, runVars, structVars, bufVars, scanVars, wgslVars, cpArg, cp>>

\* the microtask that resumes the application after `await init()`: it
\* goes on if the promise was fulfilled and sees the exports as they are
callerResume ==
    /\ ini.jobs # <<>>
    /\ Head(ini.jobs) = "caller"
    /\ ini' = [ini EXCEPT !.jobs = Tail(@),
                          !.seen = [state |-> ini.promise, known |-> known]]
    /\ UNCHANGED <<device, runVars, structVars, bufVars, scanVars, wgslVars, passVars>>

(***************************************************************************)
(* Specifications                                                          *)
(***************************************************************************)
InitRun ==
    /\ device = FALSE
    /\ passes \in PassArgs
    /\ repeats \in 0..MaxRepeats
    /\ RunIdle
    /\ StructIdle
    /\ BufIdle
    /\ WgslIdle
    /\ PassIdle
    /\ InitIdle
    /\ ScanIdle

NextRun == initCanvas \/ runPasses

\* the pass runner, called on one pass list frame after frame
SpecRun == InitRun /\ [][NextRun]_vars

\* new Struct(name, data) with up to MaxFields fields of the catalogue types
InitStruct ==
    /\ device = FALSE
    /\ passes = ArrayOf(<<>>) /\ repeats = 1 /\ RunIdle
    /\ \E ts \in SeqsUpTo(Types, MaxFields) :
          LET d == [i \in 1..Len(ts) |-> Field(UserNames[i], ts[i])]
          IN  /\ data = StructNew(d)
              /\ origin = [i \in 1..Len(StructNew(d)) |->
                              IF i <= Len(d) THEN "user" ELSE "filler"]
    /\ sOp = "new" /\ sArg = <<>> /\ sRes = [ok |-> TRUE]
    /\ BufIdle
    /\ WgslIdle
    /\ PassIdle
    /\ InitIdle
    /\ ScanIdle

NextStruct ==
    \/ initCanvas
    \/ add
    \/ object
    \/ toFloat32ArrayCall
    \/ fromFloat32ArrayCall
    \/ createBuffer

\* one struct, constructed and then used
SpecStruct == InitStruct /\ [][NextStruct]_vars

\* new Struct(name, data) with up to MaxFields fields whose names the
\* application chooses
InitNamed ==
    /\ device = FALSE
    /\ passes = ArrayOf(<<>>) /\ repeats = 1 /\ RunIdle
    /\ \E d \in SeqsUpTo({Field(n, t) : n \in FieldNameChoices, t \in Types}, MaxFields) :
          /\ data = StructNew(d)
          /\ origin = [i \in 1..Len(StructNew(d)) |->
                          IF i <= Len(d) THEN "user" ELSE "filler"]
    /\ sOp = "new" /\ sArg = <<>> /\ sRes = [ok |-> TRUE]
    /\ BufIdle
    /\ WgslIdle
    /\ PassIdle
    /\ InitIdle
    /\ ScanIdle

NextNamed == addNamed \/ object

SpecNamed == InitNamed /\ [][NextNamed]_vars

\* no buffer yet; the device is there or not
InitBuffer ==
    /\ device \in BOOLEAN
    /\ passes = ArrayOf(<<>>) /\ repeats = 1 /\ RunIdle
    /\ StructIdle
    /\ BufIdle
    /\ WgslIdle
    /\ PassIdle
    /\ InitIdle
    /\ ScanIdle

NextBuffer ==
    \/ initCanvas
    \/ newBuffer
    \/ createMouseBuffer
    \/ createTimeBuffer
    \/ update
    \/ mouseEvent
    \/ timerTick

\* one buffer, created and then updated any number of times
SpecBuffer == InitBuffer /\ [][NextBuffer]_vars

\* extractFunctionsAndBody(code) on a text of up to MaxPieces pieces, from
\* the construction of its parser
InitScan ==
    /\ device = FALSE
    /\ passes = ArrayOf(<<>>) /\ repeats = 1 /\ RunIdle
    /\ StructIdle
    /\ BufIdle
    /\ WgslIdle
    /\ PassIdle
    /\ InitIdle
    /\ \E n \in 0..MaxPieces : pieces \in PieceLists(n)
    /\ code = TextOf(pieces)
    /\ position = NewParser.position
    /\ functions = NewParser.functions
    /\ body = NewParser.body
    /\ pc = "parse"
    /\ result = <<>>
    /\ rescanned = <<>>

NextScan == parseIteration \/ parseReturn

SpecScan == InitScan /\ [][NextScan]_vars

\* extractFunctionsAndBody(code) on any text of up to MaxAny pieces, then on
\* one of the function strings it emitted
InitScanAny ==
    /\ device = FALSE
    /\ passes = ArrayOf(<<>>) /\ repeats = 1 /\ RunIdle
    /\ StructIdle
    /\ BufIdle
    /\ WgslIdle
    /\ PassIdle
    /\ InitIdle
    /\ \E n \in 0..MaxAny : pieces \in AnyLists(n)
    /\ code = TextOf(pieces)
    /\ position = NewParser.position
    /\ functions = NewParser.functions
    /\ body = NewParser.body
    /\ pc = "parse"
    /\ result = <<>>
    /\ rescanned = <<>>

NextScanAny == parseIteration \/ parseReturn \/ rescan

SpecScanAny == InitScanAny /\ [][NextScanAny]_vars



\* wgsl on a template of up to MaxTmpl pieces, again on what it returned,
\* and getNoiseCode, before and after initCanvas
InitWgsl ==
    /\ device = FALSE
    /\ passes = ArrayOf(<<>>) /\ repeats = 1 /\ RunIdle
    /\ StructIdle
    /\ BufIdle
    /\ ScanIdle
    /\ options \in OptionSets
    /\ width = 0 /\ height = 0
    /\ \E ps \in Templates : tmpl = [parts |-> ps, text |-> TmplText(ps), again |-> FALSE]
    /\ out = NoOut
    /\ wcalls = 0
    /\ noiseBuffer = 0 /\ noiseMade = 0
    /\ PassIdle
    /\ InitIdle

NextWgsl == initCanvas \/ wgsl \/ wgslAgain \/ getNoiseCode

SpecWgsl == InitWgsl /\ [][NextWgsl]_vars

\* init, wgsl on a loose body, and a ComputePass made from
\* what it returned with an explicit binding list
InitPass ==
    /\ device = FALSE
    /\ passes = ArrayOf(<<>>) /\ repeats = 1 /\ RunIdle
    /\ StructIdle
    /\ BufIdle
    /\ ScanIdle
    /\ options \in PassOptionSets
    /\ width = 0 /\ height = 0
    /\ \E ps \in PassTemplates : tmpl = [parts |-> ps, text |-> TmplText(ps), again |-> FALSE]
    /\ out = NoOut
    /\ wcalls = 0
    /\ noiseBuffer = 0 /\ noiseMade = 0
    /\ known = NoKnown
    /\ cpArg = <<>>
    /\ cp = NoPass
    /\ InitIdle

NextPass == init \/ wgsl \/ newComputePass

SpecPass == InitPass /\ [][NextPass]_vars

NextLists == init \/ wgsl \/ newComputePassLists

\* a pass constructed with two arrays of handles among its bindings
SpecLists == InitPass /\ [][NextLists]_vars

\* one init call, with every choice of options and of the steps that throw
InitAsync ==
    /\ device = FALSE
    /\ passes = ArrayOf(<<>>) /\ repeats = 1 /\ RunIdle
    /\ StructIdle
    /\ BufIdle
    /\ ScanIdle
    /\ \E m, t, f \in BOOLEAN :
          options = [Options(4, 3, m, t) EXCEPT !.feedback = f]
    /\ width = 0 /\ height = 0
    /\ tmpl = NoTmpl /\ out = NoOut /\ wcalls = 0
    /\ noiseBuffer = 0 /\ noiseMade = 0
    /\ PassIdle
    /\ \E F \in FaultSets : ini = [NoInit EXCEPT !.faults = F]

NextAsync == initCall \/ initBody \/ createRenderPassResume \/ callerResume

SpecAsync == InitAsync /\ [][NextAsync]_vars

(***************************************************************************)
(* Claims about runPasses                                                  *)
(***************************************************************************)
RECURSIVE FlatIds(_)
\* the ids of a pass list, sub-lists opened in place
FlatIds(list) ==
    IF list = <<>> THEN <<>>
    ELSE (IF Head(list).isArray
          THEN [j \in 1..Len(Head(list).items) |-> Head(list).items[j].id]
          ELSE <<Head(list).id>>) \o FlatIds(Tail(list))

RECURSIVE RepeatSeq(_, _)
RepeatSeq(s, n) == IF n <= 0 THEN <<>> ELSE s \o RepeatSeq(s, n - 1)

IsRun(e) == e.op = "run"
IsSubmit(e) == e.op = "submit"
RunEvents == SelectSeq(trace, IsRun)
RunOrder == [i \in 1..Len(RunEvents) |-> RunEvents[i].pass]
ExpectedOrder == RepeatSeq(FlatIds(NormalizePasses(passes)), repeats)
RunSucceeded == calls > 0 /\ rpError = ""
RunFailedPartWay == calls > 0 /\ device /\ rpError # ""

\* C1: a successful runPasses call with repeats >= 1 invokes run on the passes
\* in the order of the flattened list, repeated `repeats` times, every
\* invocation on the one command encoder the call created, and that encoder's
\* recording is what is submitted.
C1_FlattenedOrder ==
    (RunSucceeded /\ repeats >= 1) =>
        /\ RunOrder = ExpectedOrder
        /\ trace[1].op = "createCommandEncoder"
        /\ \A i \in 1..Len(trace) : trace[i].enc = trace[1].enc
        /\ Len(queue) = 1
        /\ queue[1].enc = trace[1].enc
        /\ queue[1].cmds = ExpectedOrder

\* the spec's example [A, [B, C], D], run twice and then a second frame
C1_Witness ==
    /\ RunSucceeded
    /\ calls = 2
    /\ repeats = 2
    /\ passes.isArray
    /\ Len(passes.items) = 3
    /\ ~passes.items[1].isArray
    /\ passes.items[2].isArray /\ Len(passes.items[2].items) = 2
    /\ ~passes.items[3].isArray
    /\ RunOrder = <<1, 2, 3, 4, 1, 2, 3, 4>>

\* C2: a runPasses call submits at most once, the submission is the last
\* device call of the call and follows every invocation, and a call that
\* fails part-way submits nothing.
C2_SingleSubmitAtEnd ==
    /\ Cardinality({i \in 1..Len(trace) : IsSubmit(trace[i])}) <= 1
    /\ Len(queue) = Cardinality({i \in 1..Len(trace) : IsSubmit(trace[i])})
    /\ \A i \in 1..Len(trace) :
          IsSubmit(trace[i]) =>
              /\ i = Len(trace)
              /\ RunOrder = ExpectedOrder
    /\ (calls > 0 /\ rpError # "") =>
          /\ queue = <<>>
          /\ \A i \in 1..Len(trace) : ~IsSubmit(trace[i])

\* a call that ran two passes and then met a pass without a run method
C2_Witness ==
    /\ RunFailedPartWay
    /\ Len(RunEvents) = 2
    /\ rpError = "Failed to run passes: Invalid pass object in array"
    /\ queue = <<>>

(***************************************************************************)
(* Claims about Struct                                                     *)
(***************************************************************************)
UserFields == UserIndexes(origin)
Fillers == {i \in 1..Len(origin) : origin[i] = "filler"}
NoAdds == \A i \in 1..Len(origin) : origin[i] # "added"
Padded == Fillers # {}
UserNamesOf == {data[i].name : i \in UserFields}

RECURSIVE SumOver(_, _)
SumOver(S, d) ==
    IF S = {} THEN 0
    ELSE LET i == CHOOSE i \in S : TRUE IN TypeSize(d[i].type) + SumOver(S \ {i}, d)

\* the floats the constructor was given, before padding
GivenFloats == SumOver({i \in 1..Len(origin) : origin[i] = "user"}, data) \div 4

\* C3: right after construction from fields of the catalogue types, byteSize is
\* a multiple of 16 and the constructor appended no filler if the given
\* fields fill whole vec4s, and 4 - floatSize % 4 fillers otherwise.
C3_PaddedToSixteen ==
    NoAdds =>
        /\ byteSize(data) % 16 = 0
        /\ Cardinality(Fillers) =
              (IF GivenFloats % 4 = 0 THEN 0 ELSE 4 - (GivenFloats % 4))
        /\ \A i \in Fillers :
              /\ data[i].type = "f32"
              /\ \A j \in UserFields : j < i

\* a vec2 and an f32 (the mouse struct): one filler
C3_Witness ==
    /\ sOp = "new"
    /\ Len(data) = 3
    /\ data[1].type = "vec2" /\ data[2].type = "f32"
    /\ Fillers = {3}

\* what C4 says of a round trip: records holding every field of the struct
\* are packed, and unpacking gives as many records, in the same order, each
\* user-declared field with the value that was packed
RoundTripHolds ==
    /\ (sOp = "toFloat32Array" /\ sArg.kind # "null" /\ sArg.variant = "full") => sRes.ok
    /\ (sOp = "fromFloat32Array" /\ sArg.cut = 0) =>
          /\ sRes.ok
          /\ Len(sRes.vals) = sArg.n
          /\ \A j \in 1..sArg.n : \A i \in UserFields :
                /\ data[i].name \in DOMAIN sRes.vals[j]
                /\ sRes.vals[j][data[i].name] =
                      RecordFor(data, origin, sArg.variant, j)[data[i].name]

C5_NoFillerKeys ==
    Padded =>
        /\ (sOp = "object") => DOMAIN sRes.val = UserNamesOf
        /\ (sOp = "fromFloat32Array" /\ sRes.ok) =>
              \A j \in 1..Len(sRes.vals) : DOMAIN sRes.vals[j] = UserNamesOf

\* C6: for a padded struct, packing records that hold every user-declared
\* field and no filler key succeeds, gives floatSize floats per record, the
\* user fields at their sequential offsets and 0 in every padding slot.
C6_PackUserRecords ==
    (sOp = "toFloat32Array" /\ Padded /\ sArg.kind # "null" /\ sArg.variant = "user") =>
        /\ sRes.ok
        /\ Len(sRes.arr) = floatSize(data) * sArg.n
        /\ \A j \in 1..sArg.n : \A i \in 1..Len(data) :
              LET base == floatSize(data) * (j - 1) + OffsetOf(data, i)
              IN  \A c \in 1..(TypeSize(data[i].type) \div 4) :
                     sRes.arr[base + c] =
                        (IF i \in Fillers THEN 0 ELSE SlotValue(j, OffsetOf(data, i) + c - 1))

\* C7: createBuffer on an array of 1 <= N < 65000 records returns one handle,
\* not a list, and the handle's count is N.
C7_SingleHandleCount ==
    (sOp = "createBuffer" /\ sArg.kind = "array" /\ sArg.n >= 1 /\ sArg.n < Ceiling
        /\ sRes.ok) =>
        /\ ~sRes.isList
        /\ Len(sRes.bufs) = 1
        /\ sRes.bufs[1].hasCount
        /\ sRes.bufs[1].count = sArg.n

\* C8: createBuffer on an array of N >= 65000 records returns a list of
\* ceil(N / 65000) handles; handle k holds the records
\* [k * 65000, min((k + 1) * 65000, N)) in order, its count is their number,
\* between 1 and 65000, and the counts sum to N.
C8_Chunked ==
    (sOp = "createBuffer" /\ sArg.kind = "array" /\ sArg.n >= Ceiling) =>
        /\ (sArg.dev /\ sArg.variant = "full") => sRes.ok
        /\ sRes.ok =>
              /\ sRes.isList
              /\ Len(sRes.bufs) = (sArg.n + Ceiling - 1) \div Ceiling
              /\ \A k \in 1..Len(sRes.bufs) :
                    LET b == sRes.bufs[k]
                    IN  /\ b.recs.first = (k - 1) * Ceiling
                        /\ b.recs.first + b.recs.n = Min(k * Ceiling, sArg.n)
                        /\ b.hasCount
                        /\ b.count = b.recs.n
                        /\ b.count >= 1 /\ b.count <= Ceiling
                        /\ b.floats = floatSize(data) * b.count
              /\ SumSeq([k \in 1..Len(sRes.bufs) |-> sRes.bufs[k].count]) = sArg.n

\* 130001 records: two full chunks and one record
C8_Witness ==
    /\ sOp = "createBuffer"
    /\ sArg.kind = "array"
    /\ sArg.n = 2 * Ceiling + 1
    /\ sRes.ok
    /\ Len(sRes.bufs) = 3
    /\ sRes.bufs[3].count = 1


(***************************************************************************)
(* Claims about Buffer.update                                              *)
(***************************************************************************)
Updated == upd.op = "update"
GivenBytes == 4 * Len(upd.arg.vals)

\* C9 as stated: Buffer.update fails, with no device write issued and the
\* host-side data unchanged, whenever the byte length of the new data
\* differs from the byte length the buffer was allocated with; after any
\* sequence of successful updates the stored data's byte length equals the
\* buffer's size.
C9_FailsOnLengthMismatch ==
    /\ (Updated /\ upd.arg.kind \in ArrayLike /\ GivenBytes # buffer.alloc) =>
          /\ upd.error # ""
          /\ upd.wrote = "none"
          /\ buffer.data = upd.before
    /\ buffer.made => 4 * Len(buffer.data) = buffer.size

\* C9 as amended: Buffer.update fails, with no device write issued and the
\* host-side data unchanged, whenever the new data is neither an Array nor
\* a Float32Array, and fails with the host-side data unchanged when the
\* device write raises; otherwise it succeeds whatever the byte length of
\* the new data, which becomes the host-side data; after any sequence of
\* updates the buffer's size equals the byte length it was allocated with.
C9_UpdateAnyLength ==
    /\ (Updated /\ upd.arg.kind \notin ArrayLike) =>
          /\ upd.error # ""
          /\ upd.wrote = "none"
          /\ buffer.data = upd.before
    /\ (Updated /\ upd.wrote = "raised") =>
          /\ upd.error # ""
          /\ buffer.data = upd.before
    /\ (Updated /\ upd.arg.kind \in ArrayLike /\ upd.wrote # "raised") =>
          /\ upd.error = ""
          /\ upd.wrote = "done"
          /\ buffer.data = upd.arg.vals
    /\ buffer.made => buffer.size = buffer.alloc

\* the mouse handler has written its three floats over the 16-byte mouse buffer
C9_Witness ==
    /\ Updated
    /\ buffer.name = "mouse"
    /\ buffer.alloc = 16
    /\ GivenBytes = 12
    /\ upd.error = ""
    /\ Len(buffer.data) = 3

(***************************************************************************)
(* Claims about the scanner                                                *)
(***************************************************************************)
\* the pieces of a kind, in the order of the text
RECURSIVE Kept(_, _)
Kept(ps, kind) ==
    IF ps = <<>> THEN <<>>
    ELSE (IF Head(ps).kind = kind THEN <<Head(ps).keep>> ELSE <<>>) \o Kept(Tail(ps), kind)

\* C10: for a text made of well-formed top-level function definitions
\* (bodies with nested braces, an optional return type that may hold a
\* balanced generic) and loose statement lines, extractFunctionsAndBody
\* returns exactly those definitions, each from its fn keyword through its
\* matching closing brace, in source order, and a body equal to the trimmed
\* non-blank loose lines joined by newlines, in source order.
C10_FunctionsAndBody ==
    pc = "done" =>
       /\ result.functions = Kept(pieces, "fn")
       /\ result.body = JoinLines(Kept(pieces, "line"))

\* a function with a body nested MaxDepth deep, a function with the generic
\* return type, then two loose lines: all four came back
C10_Witness ==
    /\ pc = "done"
    /\ Len(pieces) = 4
    /\ pieces[1].text = NestedFn(1, MaxDepth)
    /\ pieces[2].text = GenericFn(2)
    /\ pieces[3].kind = "line" /\ pieces[4].kind = "line"
    /\ Len(result.functions) = 2
    /\ result.body = Statement(3) \o <<"\n">> \o Statement(4)

\* a piece that ends inside a brace, parenthesis, angle bracket, block
\* comment or string literal is part of the text
HasBroken == \E i \in 1..Len(pieces) : pieces[i].kind = "broken"

\* C11: extractFunctionsAndBody returns a {functions, body} result, without
\* raising, for every input string, texts with unterminated braces,
\* parentheses, angle brackets, block comments or string literals included:
\* every iteration of the scan moves the cursor forward or leaves the loop,
\* so that the scan of a finite text comes to its return, and what it
\* returns is a list of function strings and a body string.
C11_AlwaysReturns ==
    /\ [](pc = "done" =>
            /\ DOMAIN result = {"functions", "body"}
            /\ \A k \in 1..Len(result.functions) : Len(result.functions[k]) > 0)
    /\ [][pc = "parse" => (pc' \in {"return", "done"} \/ position' > position)]_vars

\* a text with an unterminated piece has been scanned to its return
C11_Witness ==
    /\ pc = "done"
    /\ rescanned = <<>>
    /\ HasBroken
    /\ pieces[1].text = OpenBrace(1)
    /\ result.functions = <<>>
    /\ Len(result.body) > 0

\* C12: for every function string F emitted by extractFunctionsAndBody,
\* scanning F again returns exactly one function equal to F and an empty body.
C12_RescanIsWhole ==
    (pc = "done" /\ rescanned # <<>>) =>
        result = [functions |-> <<rescanned>>, body |-> <<>>]

\* a function that spans two pieces (an open brace closed by the next piece)
\* and one with the generic return type have been scanned again
C12_Witness ==
    /\ pc = "done"
    /\ rescanned # <<>>
    /\ Len(pieces) = 2
    /\ pieces[1].text = OpenBrace(1)
    /\ pieces[2].text = StrayClose
    /\ Len(result.functions) = 1


(***************************************************************************)
(* Claims about wgsl                                                       *)
(***************************************************************************)
HasMain == \E i \in 1..Len(tmpl.parts) : tmpl.parts[i].main
CallsNoise == \E i \in 1..Len(tmpl.parts) : tmpl.parts[i].calls
DefinesOwnNoise == \E i \in 1..Len(tmpl.parts) : tmpl.parts[i].defines
HasWord == \E i \in 1..Len(tmpl.parts) : tmpl.parts[i].word # <<>>
Injects == CallsNoise /\ ~DefinesOwnNoise
Returned == out.op = "wgsl" /\ out.ok
FreshWgsl == Returned /\ ~tmpl.again

ValueOf(word) ==
    IF word = WidthWord THEN toFixed2(width)
    ELSE IF word = HeightWord THEN toFixed2(height)
    ELSE <<>>

\* the text of the template with the values in the place of its words
Substituted ==
    JoinLines([i \in 1..Len(tmpl.parts) |->
                  tmpl.parts[i].pre \o ValueOf(tmpl.parts[i].word) \o tmpl.parts[i].post])

\* C13 as stated: when the template defines `fn main(`, wgsl returns the
\* template text with nothing changed but the whole words width and height,
\* which are replaced by their values.
C13_MainOnlySubstituted == (FreshWgsl /\ HasMain) => out.text = Substituted

\* C13, amended: when the template defines `fn main(`, wgsl returns the
\* template text with the whole words width and height replaced by their
\* values, preceded by the noise library and a blank line when the text
\* calls a noise function and defines none, and with the white space at
\* its two ends removed; no entry point is synthesized and nothing is
\* re-arranged.
C13_MainKept ==
    (FreshWgsl /\ HasMain) =>
        out.text = Trim((IF Injects THEN NoiseText \o <<"\n", "\n">> ELSE <<>>)
                        \o Substituted)

\* wgsl has returned a template that defines main, has a word to replace and
\* starts with white space
C13_Witness ==
    /\ FreshWgsl /\ HasMain /\ HasWord
    /\ tmpl.text[1] = " "
    /\ out.text # tmpl.text
    /\ Cardinality(Matches(out.text, DefPattern(MainName))) = 1

\* C19: over any sequence of wgsl and getNoiseCode calls the noise buffer is
\* constructed at most once; once set, noiseBuffer stays the same object;
\* and a wgsl call that returned with the library injected leaves it set.
C19_NoiseBufferOnce ==
    /\ [](noiseMade <= 1)
    /\ [][noiseBuffer # 0 => noiseBuffer' = noiseBuffer]_vars
    /\ []((Returned /\ Injects) => noiseBuffer # 0)

\* a call that needed the library found the buffer an earlier call had made
C19_Witness ==
    /\ FreshWgsl /\ Injects /\ out.had
    /\ noiseBuffer = 1 /\ noiseMade = 1
    /\ wcalls >= 2

\* C20: wgsl applied to what wgsl returned returns it unchanged; the text
\* of a library function occurs exactly once in what wgsl returns when the
\* library is injected, and the entry points are as many as before.
C20_Idempotent ==
    /\ (Returned /\ tmpl.again) =>
           /\ out.text = tmpl.text
           /\ Cardinality(Matches(out.text, DefPattern(MainName))) = 1
    /\ (Returned /\ Injects) => Cardinality(Occurrences(out.text, wgslNoise2)) = 1

\* wgsl has been applied to a text it had synthesized an entry point for and
\* injected the library into
C20_Witness ==
    /\ Returned /\ tmpl.again /\ Injects /\ ~HasMain
    /\ Len(out.text) > Len(TmplText(tmpl.parts))
    /\ Occurrences(out.text, wgslNoise2) # {}


(***************************************************************************)
(* Claims about ComputePass                                                *)
(***************************************************************************)
Uses == UNION {tmpl.parts[i].uses : i \in 1..Len(tmpl.parts)}
Built == cp.made /\ cp.ok
FannedOut == \E i \in 1..Len(cpArg) : cpArg[i].kind = "list"

\* the passes the construction returned, in order
ThePasses == IF cp.value.kind = "pass" THEN <<cp.value>> ELSE cp.value.items

Declarations(text) == Cardinality(Occurrences(text, <<"@", "b", "i", "n", "d", "i", "n", "g", "(">>))

\* the loose body inside the synthesized entry point
Wrapped ==
    MainHeader
    \o Flat([i \in 1..Len(tmpl.parts) |-> <<" ", " ">> \o tmpl.parts[i].pre \o <<"\n">>],
            1, Len(tmpl.parts))
    \o <<"}">>

RenderWriteLine ==
    <<"@", "g", "r", "o", "u", "p", "(", "0", ")", " ", "@", "b", "i",
      "n", "d", "i", "n", "g", "(", "0", ")", " ", "v", "a", "r",
      " ", "r", "e", "n", "d", "e", "r", "T", "x", "t", "r", ":",
      " ", "t", "e", "x", "t", "u", "r", "e", "_", "s", "t", "o",
      "r", "a", "g", "e", "_", "2", "d", "<", "r", "g", "b", "a",
      "8", "u", "n", "o", "r", "m", ",", " ", "w", "r", "i", "t",
      "e", ">", ";", "\n">>

\* C14: a loose body that references renderTxtr and no other resource, put
\* through wgsl and into a ComputePass with an empty binding list, gives a
\* source that is one binding declaration, the write view of renderTxtr at
\* binding 0, followed by one entry point `main` that wraps the body.
C14_RenderOnly ==
    (Built /\ cpArg = <<>> /\ Uses = {"renderTxtr"} /\ ~CallsNoise) =>
        /\ cp.value.kind = "pass"
        /\ cp.value.code = RenderWriteLine \o Wrapped
        /\ Declarations(cp.value.code) = 1
        /\ Cardinality(Matches(cp.value.code, DefPattern(MainName))) = 1
        /\ cp.value.entries = <<[binding |-> 0, resource |-> 3]>>

\* such a pass has been constructed from a body of two lines
C14_Witness ==
    /\ Built /\ cpArg = <<>> /\ Uses = {"renderTxtr"} /\ ~CallsNoise
    /\ Len(tmpl.parts) = 2
    /\ Len(cp.value.bindings) = 1
    /\ cp.value.bindings[1].mode = <<"w", "r", "i", "t", "e">>


WellKnown == {"mouse", "time", "renderTxtr", "feedbackTxtr"}

NameOf(w) ==
    IF w = "mouse" THEN MouseName
    ELSE IF w = "time" THEN TimeName
    ELSE IF w = "renderTxtr" THEN RenderName
    ELSE FeedbackName

\* an entry of the explicit list has the name of the resource
ExplicitNamed(w) == \E i \in 1..Len(cpArg) : cpArg[i].name = NameOf(w)

\* the positions after the explicit entries at which the pass binds it
AppendedAt(p, w) ==
    {i \in (Len(cpArg) + 1)..Len(p.bindings) : p.bindings[i].name = NameOf(w)}

\* C15: in every pass constructed, each of mouse, time, renderTxtr and
\* feedbackTxtr is appended exactly when the source has its identifier as a
\* whole word and no explicit entry has its name, and never more than once;
\* a source that mentions only `time`, with an empty list, gives the list of
\* the clock buffer alone.
C15_AutoAppend ==
    /\ Built =>
          \A j \in 1..Len(ThePasses) : \A w \in WellKnown :
             /\ (AppendedAt(ThePasses[j], w) # {}) <=> (w \in Uses /\ ~ExplicitNamed(w))
             /\ Cardinality(AppendedAt(ThePasses[j], w)) <= 1
    /\ (Built /\ cpArg = <<>> /\ Uses = {"time"} /\ ~CallsNoise) =>
          /\ cp.value.kind = "pass"
          /\ Len(cp.value.bindings) = 1
          /\ cp.value.bindings[1].name = TimeName
          /\ cp.value.bindings[1].res = 2

\* a pass has been constructed from a body with `mouse.pos` and
\* `mouse.button` and the word renderTxtr, with a view of renderTxtr in the
\* explicit list: mouse is bound once and renderTxtr is not appended
C15_Witness ==
    /\ Built
    /\ tmpl.parts # <<>> /\ tmpl.parts[1].uses = {"mouse"}
    /\ "renderTxtr" \in Uses /\ ExplicitNamed("renderTxtr")
    /\ Cardinality(AppendedAt(ThePasses[1], "mouse")) = 1
    /\ AppendedAt(ThePasses[1], "renderTxtr") = {}

\* the explicit entries of the j-th pass: those of the caller, with the
\* chunk list replaced by its j-th chunk
ExplicitOf(j) ==
    [i \in 1..Len(cpArg) |->
        IF cpArg[i].kind = "list" THEN cpArg[i].items[j] ELSE cpArg[i]]

AutoOrder == <<"mouse", "time", "renderTxtr", "feedbackTxtr">>

ExpectedAuto(w) ==
    IF w = "mouse" THEN mouseBuffer
    ELSE IF w = "time" THEN timeBuffer
    ELSE IF w = "renderTxtr" THEN View(RenderName, <<"w", "r", "i", "t", "e">>, 3)
    ELSE View(FeedbackName, <<"r", "e", "a", "d">>, 4)

ExpectedAutos ==
    Flat([k \in 1..Len(AutoOrder) |->
             IF AutoOrder[k] \in Uses /\ ~ExplicitNamed(AutoOrder[k])
             THEN <<ExpectedAuto(AutoOrder[k])>> ELSE <<>>],
         1, Len(AutoOrder))

\* the noise buffer, once for each run of the constructor the pass went
\* through: one for a pass constructed directly, two for a pass of a fan-out
NoiseEntries ==
    IF ~CallsNoise THEN <<>>
    ELSE IF FannedOut THEN <<NoiseHandle, NoiseHandle>>
    ELSE <<NoiseHandle>>

\* the start of the declaration of entry e at index n
DeclStart(e, n) ==
    <<"@", "g", "r", "o", "u", "p", "(", "0", ")", " ", "@", "b", "i",
      "n", "d", "i", "n", "g", "(">> \o Decimal(n) \o <<")", " ", "v", "a", "r">>
    \o (IF e.kind = "buffer" THEN <<"<", "s", "t", "o", "r", "a", "g", "e", ",", " ", "r", "e", "a",
      "d", "_", "w", "r", "i", "t", "e", ">", " ">> ELSE <<" ">>)
    \o e.name \o <<":">>

SlotsAgree(p) ==
    /\ Declarations(p.code) = Len(p.bindings)
    /\ Len(p.entries) = Len(p.bindings)
    /\ \A k \in 1..Len(p.bindings) :
          /\ Cardinality(Occurrences(p.code, DeclStart(p.bindings[k], k - 1))) = 1
          /\ p.entries[k] = [binding |-> k - 1, resource |-> p.bindings[k].res]

\* C16 as stated: the list of every pass is the explicit entries in caller
\* order, then the entries appended for mouse, time, renderTxtr (write view)
\* and feedbackTxtr (read view) in that order, and nothing else; the k-th
\* entry is declared with @binding(k) and bound to slot k.
C16_ExplicitThenAutos ==
    Built =>
        \A j \in 1..Len(ThePasses) :
           /\ ThePasses[j].bindings = ExplicitOf(j) \o ExpectedAutos
           /\ SlotsAgree(ThePasses[j])

\* C16, amended: the list of every pass is the explicit entries in caller
\* order, then the entries appended for mouse, time, renderTxtr (write view)
\* and feedbackTxtr (read view) in that order, then, when the source calls a
\* noise function and the noise buffer exists, the noise buffer (once for
\* each run of the constructor the pass went through); the k-th entry is
\* declared with @binding(k) and bound to slot k.
C16_ExplicitAutosNoise ==
    Built =>
        \A j \in 1..Len(ThePasses) :
           /\ ThePasses[j].bindings = ExplicitOf(j) \o ExpectedAutos \o NoiseEntries
           /\ SlotsAgree(ThePasses[j])

\* a pass with an explicit entry, two appended entries and the noise buffer
C16_Witness ==
    /\ Built /\ ~FannedOut
    /\ Len(cpArg) >= 1
    /\ Len(ExpectedAutos) >= 2
    /\ CallsNoise
    /\ Len(cp.value.bindings) = Len(cpArg) + Len(ExpectedAutos) + 1

\* C17: a binding list with one chunk list of k handles among ordinary
\* entries gives an array of k passes in chunk order; the i-th binds the
\* i-th chunk where the list was and the ordinary entries where they were,
\* and its dispatch size is the count of its chunk, whatever the caller gave.
C17_FanOut ==
    Built =>
        \A idx \in 1..Len(cpArg) :
           cpArg[idx].kind = "list" =>
              /\ cp.value.kind = "array"
              /\ Len(cp.value.items) = Len(cpArg[idx].items)
              /\ \A j \in 1..Len(cp.value.items) :
                    /\ cp.value.items[j].kind = "pass"
                    /\ cp.value.items[j].dispatchSize = <<cpArg[idx].items[j].count>>
                    /\ cp.value.items[j].bindings[idx] = cpArg[idx].items[j]
                    /\ cp.value.items[j].entries[idx].resource = cpArg[idx].items[j].res
                    /\ \A i \in (1..Len(cpArg)) \ {idx} :
                          /\ cp.value.items[j].bindings[i] = cpArg[i]
                          /\ cp.value.items[j].entries[i].resource = cpArg[i].res

\* a chunk list after an ordinary entry has been fanned out
C17_Witness ==
    /\ Built /\ FannedOut
    /\ Len(cpArg) >= 2 /\ cpArg[2].kind = "list"
    /\ Len(cp.value.items) >= 2
    /\ cp.value.items[1].dispatchSize # cp.value.items[2].dispatchSize
    /\ cp.ds.vals # cp.value.items[1].dispatchSize

StructsOf(p) == {p.bindings[i].struct : i \in 1..Len(p.bindings)} \ {NoStruct}

StructStart(s) == <<"s", "t", "r", "u", "c", "t", " ">> \o s.name \o <<" ", "{">>

\* C18: in the source of every pass each struct of its handles is declared
\* once, the struct declarations come before the binding declarations, and
\* these before the body.
C18_StructOnce ==
    Built =>
        \A j \in 1..Len(ThePasses) :
           /\ \A s \in StructsOf(ThePasses[j]) :
                 Cardinality(Occurrences(ThePasses[j].code, StructStart(s))) = 1
           /\ \A a \in Occurrences(ThePasses[j].code, <<"s", "t", "r", "u", "c", "t", " ">>) :
                 \A d \in Occurrences(ThePasses[j].code, <<"@", "g", "r", "o", "u", "p", "(", "0", ")">>) :
                    /\ a < d
                    /\ d <= Len(ThePasses[j].code) - Len(cp.code)
           /\ SubSeq(ThePasses[j].code, Len(ThePasses[j].code) - Len(cp.code) + 1,
                     Len(ThePasses[j].code)) = cp.code

(***************************************************************************)
(* Claims about Struct.object                                              *)
(***************************************************************************)
ObjectReturned == sOp = "object" /\ sRes.ok

\* the type of the field whose default the record holds under key n
TypeAt(n) == data[LastIndex(data, n)].type

\* the value under key n is zero in every number it holds, except those
\* components of a colour that are listed in `spared`
ZeroAt(n, spared) ==
    IF TypeAt(n) = "f32" THEN sRes.val[n] = 0
    ELSE /\ DOMAIN sRes.val[n] = Range(Components(TypeAt(n)))
         /\ \A c \in DOMAIN sRes.val[n] :
               (TypeAt(n) = "color" /\ c \in spared) \/ sRes.val[n][c] = 0

\* C21 as stated: object() returns a record whose scalar fields are 0 and
\* whose composite fields (vec2, vec3, vec4, color) are 0 in every component.
C21_AllZero ==
    ObjectReturned =>
        /\ DOMAIN sRes.val = FieldNames(data)
        /\ \A n \in DOMAIN sRes.val : ZeroAt(n, {})

\* C21: object() returns a record with one key per field; scalar fields are
\* 0, every component of a vec2, vec3 or vec4 field is 0, and a color field
\* is r = 0, g = 0, b = 0 with a = 1.
C21_ZeroButAlpha ==
    ObjectReturned =>
        /\ DOMAIN sRes.val = FieldNames(data)
        /\ \A n \in DOMAIN sRes.val :
              /\ ZeroAt(n, {"a"})
              /\ TypeAt(n) = "color" => sRes.val[n]["a"] = 1

\* object() of a struct holding a color field, a vector field and fillers
C21_Witness ==
    /\ ObjectReturned
    /\ \E n \in DOMAIN sRes.val : TypeAt(n) = "color"
    /\ \E n \in DOMAIN sRes.val : TypeAt(n) = "vec3"
    /\ Fillers # {}

(***************************************************************************)
(* Claims about Struct.add                                                 *)
(***************************************************************************)
\* the struct was constructed with no fields: whatever it holds was added
FromEmpty == \A i \in 1..Len(origin) : origin[i] = "added"

\* a step that called add: the field list grew
AddStep == Len(origin') > Len(origin)

\* C22: from a struct constructed with no fields, every add appends exactly
\* the field it was given at the end of the list (nothing inserted, removed
\* or padded), no other operation changes the list, and so the list is the
\* added fields in call order, byteSize the sum of their sizes and floatSize
\* a quarter of it.
C22_AddAppends ==
    /\ [](FromEmpty =>
            /\ Fillers = {}
            /\ \A i \in 1..Len(data) : data[i].name = UserNames[i]
            /\ byteSize(data) = SumOver(1..Len(data), data)
            /\ 4 * floatSize(data) = byteSize(data))
    /\ [][(FromEmpty /\ AddStep) =>
            /\ sOp' = "add"
            /\ data' = Append(data, Field(UserNames[Len(data) + 1], sArg'))
            /\ byteSize(data') = byteSize(data) + TypeSize(sArg')]_vars
    /\ [][(FromEmpty /\ ~AddStep) => data' = data]_vars

\* two adds on an empty struct that leave it short of a whole vec4
C22_Witness ==
    /\ FromEmpty
    /\ sOp = "add"
    /\ Len(data) = 2
    /\ data[1].type = "vec2" /\ data[2].type = "f32"
    /\ byteSize(data) = 12
    /\ floatSize(data) = 3

(***************************************************************************)
(* Claims about init                                                       *)
(***************************************************************************)
\* the steps of init that create the textures and the passes
CreationSteps == {"renderTxtr", "feedbackTxtr", "pass1", "clearPass", "renderPass",
                  "matchPass"}

\* the creation steps this init call reaches that throw
FailedSteps ==
    {f \in ini.faults \cap CreationSteps :
        /\ "initCanvas" \notin ini.faults
        /\ f = "matchPass" => options.feedback
        /\ f \in {"clearPass", "renderPass"} =>
              ini.faults \cap {"renderTxtr", "feedbackTxtr", "pass1"} = {}}

InitSettled == ini.promise \in {"fulfilled", "rejected"}

\* C23: once a creation step of init (the textures, the clear pass, the
\* render pass or the match pass) has failed, the promise init returned is
\* rejected, never fulfilled.
C23_FailureRejects ==
    (InitSettled /\ FailedSteps # {}) => ini.promise = "rejected"

\* init has returned, the rest of createRenderPass has run and the caller
\* has gone on after `await init()`, while creating a texture threw
C23_Reached ==
    /\ ini.pc = "done" /\ ini.jobs = <<>>
    /\ "feedbackTxtr" \in FailedSteps
    /\ ini.seen.state = "fulfilled"
    /\ "createRenderPass" \in ini.unhandled

\* without a failing step the caller never goes on before the passes exist
NoFaultAllMade ==
    (ini.seen.state = "fulfilled" /\ ini.faults = {}) =>
        /\ ini.seen.known.renderTxtr /\ ini.seen.known.feedbackTxtr
        /\ ini.seen.known.clearPass /\ ini.seen.known.renderPass
        /\ ini.seen.known.mouse = options.mouse
        /\ ini.seen.known.time = options.time
        /\ ini.seen.known.matchPass = options.feedback

\* C27: a caller that goes on after `await init()` finds renderTxtr,
\* feedbackTxtr, clearPass and renderPass created, and the mouse buffer, the
\* time buffer and matchPass when their options are set.
C27_AllMadeWhenResolved ==
    ini.seen.state = "fulfilled" =>
        /\ ini.seen.known.renderTxtr /\ ini.seen.known.feedbackTxtr
        /\ ini.seen.known.clearPass /\ ini.seen.known.renderPass
        /\ options.mouse => ini.seen.known.mouse
        /\ options.time => ini.seen.known.time
        /\ options.feedback => ini.seen.known.matchPass

(***************************************************************************)
(* Claims about field names                                                *)
(***************************************************************************)
\* C24: no padding field has the name of a field the caller declared (in the
\* constructor list or through add).
C24_FillerNamesFresh ==
    \A i \in Fillers, j \in UserFields : data[i].name # data[j].name

\* a struct whose caller named a field as the constructor names a filler:
\* object() has fewer keys than the struct has fields
C24_Reached ==
    /\ sOp = "object"
    /\ \E i \in Fillers, j \in UserFields : data[i].name = data[j].name
    /\ Cardinality(DOMAIN sRes.val) < Len(data)

(***************************************************************************)
(* Claims about the validation of runPasses                                *)
(***************************************************************************)
\* the list handed to runPasses holds, at the top or in a sub-list, an
\* element without a run method
HasInvalid ==
    \E k \in 1..Len(NormalizePasses(passes)) :
        LET e == NormalizePasses(passes)[k]
        IN  IF e.isArray THEN \E j \in 1..Len(e.items) : ~e.items[j].hasRun
            ELSE ~e.hasRun

\* C25: a runPasses call on a list holding an element without a run method
\* fails before any device-side call: no command encoder is created and run
\* is invoked on no pass.
C25_FailsBeforeDevice ==
    (calls > 0 /\ HasInvalid) =>
        /\ rpError # ""
        /\ trace = <<>>

\* a call that created an encoder and ran a pass before it met the element
\* without a run method
C25_Reached ==
    /\ calls > 0 /\ HasInvalid
    /\ rpError = "Failed to run passes: Invalid pass object"
    /\ Len(trace) >= 2
    /\ trace[1].op = "createCommandEncoder"
    /\ trace[2].op = "run"

(***************************************************************************)
(* Claims about binding lists with several arrays                          *)
(***************************************************************************)
ListCount(b) == Cardinality({i \in 1..Len(b) : b[i].kind = "list"})

\* C26: a ComputePass construction whose binding list holds more than one
\* array of handles throws; it returns neither passes nor a list of lists.
C26_TwoListsRejected ==
    (cp.made /\ ListCount(cpArg) > 1) => ~cp.ok

\* such a construction returned an array whose elements are arrays of passes
C26_Reached ==
    /\ cp.made /\ ListCount(cpArg) > 1
    /\ cp.ok
    /\ cp.value.kind = "array"
    /\ Len(cp.value.items) = MaxFan
    /\ \A j \in 1..Len(cp.value.items) :
          /\ cp.value.items[j].kind = "array"
          /\ Len(cp.value.items[j].items) = MaxFan
          /\ \A k \in 1..MaxFan : cp.value.items[j].items[k].kind = "pass"

(***************************************************************************)
(* Claims about the finished binding list and the caller's array           *)
(***************************************************************************)
\* the slots of pass p that hold a resource of the given name
SlotsNamed(p, name) == {i \in 1..Len(p.bindings) : p.bindings[i].name = name}

\* C28: in every pass the constructor produced, fanned out or not, calling
\* noise or not, no resource name occupies more than one slot of the list.
C28_NoNameTwice ==
    Built =>
        \A j \in 1..Len(ThePasses) :
           \A i \in 1..Len(ThePasses[j].bindings) :
              Cardinality(SlotsNamed(ThePasses[j], ThePasses[j].bindings[i].name)) = 1

\* every pass without the noise buffer binds each name once
OnlyNoiseTwice ==
    Built =>
        \A j \in 1..Len(ThePasses) :
           \A i \in 1..Len(ThePasses[j].bindings) :
              \/ Cardinality(SlotsNamed(ThePasses[j], ThePasses[j].bindings[i].name)) = 1
              \/ /\ ThePasses[j].bindings[i] = NoiseHandle
                 /\ FannedOut
                 /\ Cardinality(SlotsNamed(ThePasses[j], NoiseOffsetName)) = 2

\* the sub-passes of a fan-out whose source calls noise2 bind noiseOffset in
\* their last two slots and declare it twice
C28_Reached ==
    /\ Built /\ FannedOut /\ CallsNoise
    /\ \A j \in 1..Len(ThePasses) :
          /\ Cardinality(SlotsNamed(ThePasses[j], NoiseOffsetName)) = 2
          /\ Declarations(ThePasses[j].code) = Len(ThePasses[j].bindings)

\* C29: a construction leaves the array the caller handed in as it was: same
\* length, same entries.
C29_ListUnchanged ==
    cp.made => cp.bindings = cpArg

\* the caller's empty array holds the appended mouse and time buffers after
\* the construction
C29_Reached ==
    /\ Built
    /\ cpArg = <<>>
    /\ cp.bindings = <<mouseBuffer, timeBuffer>>

(***************************************************************************)
(* Claims about the termination of the scan                                *)
(***************************************************************************)
\* the parser as it stands
TheParser ==
    [NewParser EXCEPT !.position = position, !.functions = functions, !.body = body]

\* where the next iteration of parse() starts its function attempt
AttemptStart == skipWhitespaceAndComments(code, position)

\* the next iteration of parse() moves the cursor forward and not past the
\* end; one that emits no function stops within the line of its attempt
NextAdvances ==
    /\ ParseIteration(code, TheParser).position > position
    /\ ParseIteration(code, TheParser).position <= Len(code)
    /\ ParseIteration(code, TheParser).functions = functions =>
          \/ ParseIteration(code, TheParser).broke
          \/ /\ ParseIteration(code, TheParser).position > AttemptStart
             /\ ParseIteration(code, TheParser).position
                   <= LineNext(code, LineEnd(code, AttemptStart))

\* started at position p, the skipping loops stop at the end of the text at
\* the latest (the loop over a string literal may step one past it)
LoopsStop(p) ==
    /\ skipWhitespace(code, p) \in p..Len(code)
    /\ skipComment(code, p) \in p..Len(code)
    /\ skipWhitespaceAndComments(code, p) \in p..Len(code)
    /\ ParenLoop(code, p, 1) \in p..Len(code)
    /\ AngleLoop(code, p, 1) \in p..Len(code)
    /\ BraceLoop(code, [pos |-> p, braceCount |-> 1]).pos \in p..(Len(code) + 1)

\* C30: the scan of a finite text terminates: the cursor never passes the
\* end, every iteration of parse() strictly advances it (a failed function
\* attempt consumes at least one character of its line), and the comment,
\* parenthesis, angle-bracket and brace loops stop at the end of the text
\* from every position.
C30_ScanTerminates ==
    /\ position <= Len(code)
    /\ (pc = "parse" /\ position < Len(code)) => NextAdvances
    /\ (pc = "parse" /\ position = 0) => \A p \in 0..Len(code) : LoopsStop(p)

\* a text that ends inside a string literal, after a block comment that is
\* never closed, has been scanned to its end
C30_Witness ==
    /\ pc = "done"
    /\ rescanned = <<>>
    /\ Len(pieces) = 2
    /\ pieces[1].text = OpenString(1)
    /\ pieces[2].text = OpenComment(2)
    /\ position = Len(code)

=========================================================================
